---- MODULE Spec2Model ----
(***************************************************************************)
(* Model of the structural document editor of pyvvo/app/modGLM.py: the     *)
(* class modGLM keeps a GridLAB-D model as one string, self.strModel, and  *)
(* edits it with brace counting (extractObject), a backward regular        *)
(* expression scan (extractObjectByNameAndType), a property search         *)
(* (extractProperties) and a splice (replaceObject).                       *)
(*                                                                         *)
(* A string is a sequence of one-character strings.  Offsets are Python    *)
(* offsets (0-based); s[i+1] is the character at Python offset i.          *)
(***************************************************************************)
EXTENDS Integers, Sequences, FiniteSets

VARIABLES strModel, pc, call, d, exc, outDict, pre

vars == <<strModel, pc, call, d, exc, outDict, pre>>

----------------------------------------------------------------------------
(* Bounds of the model.                                                    *)

\* number of text items a document is built from
MaxItems == 2
\* number of property names in one extractProperties request
MaxProps == 2

----------------------------------------------------------------------------
(* Words and characters of the GridLAB-D text.                             *)

W_object == <<"o","b","j","e","c","t">>
W_regulator == <<"r","e","g","u","l","a","t","o","r">>
W_capacitor == <<"c","a","p","a","c","i","t","o","r">>
W_name == <<"n","a","m","e">>
W_group == <<"g","r","o","u","p">>
W_phases == <<"p","h","a","s","e","s">>
N_r1 == <<"r","1">>
N_r2 == <<"r","2">>
SP == <<" ">>
NL == <<"\n">>
LB == <<"{">>
RB == <<"}">>
SEMI == <<";">>

\* \w of Python's re module (the part of it the documents use)
WordChars ==
  {"a","b","c","d","e","f","g","h","i","j","k","l","m","n","o","p","q","r",
   "s","t","u","v","w","x","y","z","0","1","2","3","4","5","6","7","8","9",
   "_",
   "A","B","C","D","E","F","G","H","I","J","K","L","M","N","O","P","Q","R",
   "S","T","U","V","W","X","Y","Z"}

\* \s of Python's re module
SpaceChars == {" ", "\n", "\t", "\r"}

IsWord(c) == c \in WordChars

IsSpace(c) == c \in SpaceChars

Min(a, b) == IF a < b THEN a ELSE b

Max(a, b) == IF a > b THEN a ELSE b

----------------------------------------------------------------------------
(* Python string slicing s[a:b]: negative offsets count from the end, and  *)
(* both offsets are clamped to the string.                                 *)

PyIndex(s, i) == IF i < 0 THEN Max(i + Len(s), 0) ELSE Min(i, Len(s))

PySlice(s, a, b) ==
  LET lo == PyIndex(s, a)
      hi == PyIndex(s, b)
  IN IF lo >= hi THEN <<>> ELSE SubSeq(s, lo + 1, hi)

\* s[a:]
PyTail(s, a) == PySlice(s, a, Len(s))

----------------------------------------------------------------------------
(* The pieces of Python's regular expressions the patterns are made of.    *)
(* endpos is the offset at which the searched string is taken to end.      *)

\* \b at offset i
atB(s, i, endpos) ==
  LET prev == i > 0 /\ i <= Len(s) /\ IsWord(s[i])
      next == i >= 0 /\ i < endpos /\ IsWord(s[i + 1])
  IN prev # next

\* the literal word w at offset i
litAt(s, i, w, endpos) ==
  /\ i >= 0
  /\ i + Len(w) <= endpos
  /\ \A k \in 1..Len(w) : s[i + k] = w[k]

\* the length of the longest run of \s characters that starts at offset i
RECURSIVE spaceRun(_, _, _)
spaceRun(s, i, endpos) ==
  IF i >= 0 /\ i < endpos /\ IsSpace(s[i + 1])
  THEN 1 + spaceRun(s, i + 1, endpos)
  ELSE 0

\* an optional double quote at offset i: ("?)
quoteAt(s, i, endpos) ==
  IF i >= 0 /\ i < endpos /\ s[i + 1] = "\"" THEN 1 ELSE 0

\* pattern.match(s, pos, endpos) of \bobject\b(\s+)\b<typeWord>\b: a
\* negative pos is taken as 0, the lookbehind of \b still sees s[pos-1]
objTypeMatch(typeWord, s, pos, endpos) ==
  LET p == Max(pos, 0)
      e == Min(Max(endpos, 0), Len(s))
      a == p + Len(W_object)
      b == a + spaceRun(s, a, e)
  IN /\ atB(s, p, e)
     /\ litAt(s, p, W_object, e)
     /\ atB(s, a, e)
     /\ b > a
     /\ atB(s, b, e)
     /\ litAt(s, b, typeWord, e)
     /\ atB(s, b + Len(typeWord), e)

REGOBJ_REGEX(s, pos, endpos) == objTypeMatch(W_regulator, s, pos, endpos)

W_configuration ==
  <<"c","o","n","f","i","g","u","r","a","t","i","o","n">>

W_regulator_configuration == W_regulator \o <<"_">> \o W_configuration

REGCONF_REGEX(s, pos, endpos) ==
  objTypeMatch(W_regulator_configuration, s, pos, endpos)

CAP_REGEX(s, pos, endpos) == objTypeMatch(W_capacitor, s, pos, endpos)

\* \bobject\b
OBJ_REGEX(s, pos, endpos) ==
  LET p == Max(pos, 0)
      e == Min(Max(endpos, 0), Len(s))
  IN /\ atB(s, p, e)
     /\ litAt(s, p, W_object, e)
     /\ atB(s, p + Len(W_object), e)

\* the compiled patterns a caller passes as objRegEx
ObjRegExes == {"REGOBJ_REGEX", "CAP_REGEX"}

regexMatch(objRegEx, s, pos, endpos) ==
  IF objRegEx = "REGOBJ_REGEX" THEN REGOBJ_REGEX(s, pos, endpos)
  ELSE IF objRegEx = "REGCONF_REGEX" THEN REGCONF_REGEX(s, pos, endpos)
  ELSE CAP_REGEX(s, pos, endpos)

\* OBJY_BY_NAME.format(name) matched at offset i of s:
\* \bname\b(\s+)("?)<name>("?)(\s*);   The result is the offset after the
\* match, or -1 when the pattern does not match at i.
OBJY_BY_NAME(name, s, i) ==
  LET n == Len(s)
      a == i + Len(W_name)
      b == a + spaceRun(s, a, n)
      c == b + quoteAt(s, b, n)
      e == c + Len(name)
      f == e + quoteAt(s, e, n)
      g == f + spaceRun(s, f, n)
  IN IF /\ atB(s, i, n)
        /\ litAt(s, i, W_name, n)
        /\ atB(s, a, n)
        /\ b > a
        /\ litAt(s, c, name, n)
        /\ g < n
        /\ s[g + 1] = ";"
     THEN g + 1
     ELSE -1

\* the offsets at which the name statement of name matches
nameMatches(name, s) == {i \in 0..Len(s) : OBJY_BY_NAME(name, s, i) # -1}

MinOf(S) == CHOOSE x \in S : \A y \in S : x <= y

\* The element of a set of one element: {e : x \in {v}} computes v once.
TheOne(S) == CHOOSE x \in S : TRUE

MaxOf(S) == CHOOSE x \in S : \A y \in S : x >= y

\* a search that returns the last match instead of the leftmost one
searchName_Last(name, s) ==
  IF nameMatches(name, s) = {} THEN -1 ELSE MaxOf(nameMatches(name, s))

\* re.search(OBJY_BY_NAME.format(name), s): the start of the leftmost
\* match, -1 for None
searchName(name, s) ==
  IF nameMatches(name, s) = {} THEN -1 ELSE MinOf(nameMatches(name, s))

----------------------------------------------------------------------------
(* modGLM.extractObject                                                    *)

NoDict == [start |-> -1, end |-> -1, obj |-> <<>>]

NoExc == [type |-> "none", arg |-> <<>>]

\* the offset of the first brace at or after offset i, -1 if there is none:
\* the loop changes nothing but endInd on any other character
nextBrace(s, i) ==
  LET B == {j \in i..(Len(s) - 1) : s[j + 1] \in {"{", "}"}}
  IN IF B = {} THEN -1 ELSE MinOf(B)

\* a scan that stops at the first "}" and does not count nested braces
RECURSIVE scanObject_FirstBrace(_, _, _)
scanObject_FirstBrace(s, endInd, braceCount) ==
  LET j == nextBrace(s, endInd)
  IN IF j = -1 THEN Max(Len(s), endInd)
     ELSE IF s[j + 1] = "}" THEN j + 1
     ELSE scanObject_FirstBrace(s, j + 1, braceCount)

\* the loop over self.strModel[startInd:], taken from one brace to the
\* next; endInd characters are consumed, and the result is endInd at the
\* break or at the end of the string
RECURSIVE scanObject(_, _, _)
scanObject(s, endInd, braceCount) ==
  LET j == nextBrace(s, endInd)
  IN IF j = -1 THEN Max(Len(s), endInd)
     ELSE LET c == s[j + 1]
              bc == IF c = "{" THEN braceCount + 1 ELSE braceCount - 1
          IN IF c = "}" /\ bc = 0
             THEN j + 1
             ELSE scanObject(s, j + 1, bc)

extractObject(s, startInd) ==
  LET endInd == scanObject(s, startInd, 0)
  IN [start |-> startInd, end |-> endInd, obj |-> PySlice(s, startInd, endInd)]

----------------------------------------------------------------------------
(* modGLM.extractObjectByNameAndType                                       *)

\* a backward walk whose loop ends at offset 0 instead of below it:
\* while (m2 is None) and (sInd > 0)
backScan_StopAtZero(s, objRegEx, sInd, eInd) ==
  IF regexMatch(objRegEx, s, sInd, eInd) \/ sInd <= 0 THEN sInd
  ELSE LET M == {p \in 0..(sInd - 1) : regexMatch(objRegEx, s, p, eInd)}
       IN IF M = {} THEN 0 ELSE MaxOf(M)

\* the while loop that walks sInd backward until objRegEx matches: the
\* value of sInd when the loop ends.  The loop is not entered when the
\* first match succeeds or sInd is negative; otherwise it stops at the
\* nearest offset below sInd where objRegEx matches, and at -1 (where
\* match takes pos as 0 again) when there is none.
backScan(s, objRegEx, sInd, eInd) ==
  IF regexMatch(objRegEx, s, sInd, eInd) \/ sInd < 0 THEN sInd
  ELSE LET M == {p \in 0..(sInd - 1) : regexMatch(objRegEx, s, p, eInd)}
       IN IF M = {} THEN -1 ELSE MaxOf(M)

\* the result is [exc, d]: the exception raised, or the extracted object
extractObjectByNameAndType(s, name, objRegEx, minLength) ==
  LET eInd == searchName(name, s)
  IN IF eInd = -1
     THEN [exc |-> [type |-> "ObjNotFoundError", arg |-> name], d |-> NoDict]
     ELSE LET sInd == backScan(s, objRegEx, eInd - minLength, eInd)
          IN IF sInd < 0
             THEN [exc |-> [type |-> "ObjNotFoundError", arg |-> name],
                   d |-> NoDict]
             ELSE [exc |-> NoExc, d |-> extractObject(s, sInd)]

----------------------------------------------------------------------------
(* modGLM.replaceObject                                                    *)

\* a splice that resumes one character after objDict['end']
replaceObject_OffByOne(s, objDict) ==
  PySlice(s, 0, objDict.start) \o objDict.obj \o PyTail(s, objDict.end + 1)

\* a splice that overwrites len(obj) characters instead of [start, end)
replaceObject_Overwrite(s, objDict) ==
  PySlice(s, 0, objDict.start) \o objDict.obj
    \o PyTail(s, objDict.start + Len(objDict.obj))

replaceObject(s, objDict) ==
  PySlice(s, 0, objDict.start) \o objDict.obj \o PyTail(s, objDict.end)

----------------------------------------------------------------------------
(* modGLM.extractProperties                                                *)

\* the offset of the first ";" or newline at or after offset j, -1 if none:
\* (.*?)(?=;) stops at the first ";" and "." does not match a newline
firstStop(s, j) ==
  LET S == {k \in j..(Len(s) - 1) : s[k + 1] \in {";", "\n"}}
  IN IF S = {} THEN -1 ELSE MinOf(S)

\* (?<=\b<p>\b)(\s+)(.*?)(?=;) matched at offset i: the offset after the
\* match, or -1 when the pattern does not match at i
propMatchEnd(p, s, i) ==
  LET n == Len(s)
      k == spaceRun(s, i, n)
      j == firstStop(s, i + k)
  IN IF /\ litAt(s, i - Len(p), p, n)
        /\ atB(s, i - Len(p), n)
        /\ atB(s, i, n)
        /\ k >= 1
        /\ j # -1
        /\ s[j + 1] = ";"
     THEN j
     ELSE -1

propMatches(p, s) == {i \in 0..Len(s) : propMatchEnd(p, s, i) # -1}

\* str.strip(chars)
RECURSIVE lstrip(_, _)
lstrip(s, chars) ==
  IF s # <<>> /\ Head(s) \in chars THEN lstrip(Tail(s), chars) ELSE s

RECURSIVE rstrip(_, _)
rstrip(s, chars) ==
  IF s # <<>> /\ s[Len(s)] \in chars
  THEN rstrip(SubSeq(s, 1, Len(s) - 1), chars)
  ELSE s

strip(s, chars) == rstrip(lstrip(s, chars), chars)

\* the entry of outDict for one property whose match spans [i, j)
propEntry(s, i, j) ==
  [prop |-> strip(strip(PySlice(s, i, j), SpaceChars), {"\""}),
   start |-> i, end |-> j]

\* a loop that skips a property that is not found instead of raising
RECURSIVE extractPropertiesFrom_Skip(_, _, _, _)
extractPropertiesFrom_Skip(objString, props, k, out) ==
  IF k > Len(props) THEN [exc |-> [type |-> "none", arg |-> <<>>],
                          outDict |-> out]
  ELSE LET p == props[k]
           M == propMatches(p, objString)
       IN IF M = {}
          THEN extractPropertiesFrom_Skip(objString, props, k + 1, out)
          ELSE LET i == MinOf(M)
                   j == propMatchEnd(p, objString, i)
                   e == [prop |-> strip(strip(PySlice(objString, i, j),
                                              SpaceChars), {"\""}),
                         start |-> i, end |-> j]
               IN extractPropertiesFrom_Skip(objString, props, k + 1,
                    [x \in (DOMAIN out) \cup {p} |->
                       IF x = p THEN e ELSE out[x]])

\* the loop over props, from the k-th requested name on; out is outDict
RECURSIVE extractPropertiesFrom(_, _, _, _)
extractPropertiesFrom(objString, props, k, out) ==
  IF k > Len(props) THEN [exc |-> NoExc, outDict |-> out]
  ELSE LET p == props[k]
           M == propMatches(p, objString)
       IN IF M = {}
          THEN [exc |-> [type |-> "PropNotInObjError", arg |-> p],
                outDict |-> <<>>]
          ELSE LET i == MinOf(M)
                   e == propEntry(objString, i, propMatchEnd(p, objString, i))
               IN extractPropertiesFrom(objString, props, k + 1,
                    [x \in (DOMAIN out) \cup {p} |->
                       IF x = p THEN e ELSE out[x]])

extractProperties(objString, props) ==
  extractPropertiesFrom(objString, props, 1, <<>>)

----------------------------------------------------------------------------
(* The documents: strModel is the text the caller hands to modGLM.         *)

\* object regulator {\nname r1;\n}
ItemA ==
  W_object \o SP \o W_regulator \o SP \o LB \o NL \o W_name \o SP \o N_r1
    \o SEMI \o NL \o RB

\* object regulator {name r2;}
ItemB ==
  W_object \o SP \o W_regulator \o SP \o LB \o W_name \o SP \o N_r2 \o SEMI
    \o RB

\* object capacitor {group name r2;\nname r1;}
ItemC ==
  W_object \o SP \o W_capacitor \o SP \o LB \o W_group \o SP \o W_name \o SP
    \o N_r2 \o SEMI \o NL \o W_name \o SP \o N_r1 \o SEMI \o RB

\* object regulator {object capacitor {name r1;}}
ItemD ==
  W_object \o SP \o W_regulator \o SP \o LB \o W_object \o SP \o W_capacitor
    \o SP \o LB \o W_name \o SP \o N_r1 \o SEMI \o RB \o RB

\* object regulator {
ItemF == W_object \o SP \o W_regulator \o SP \o LB

\* name r1;
ItemG == W_name \o SP \o N_r1 \o SEMI

Items == {ItemA, ItemB, ItemC, ItemD, RB, ItemF, ItemG}

RECURSIVE Flatten(_)
Flatten(q) == IF q = <<>> THEN <<>> ELSE Head(q) \o Flatten(Tail(q))

Docs == {Flatten(q) : q \in UNION {[1..n -> Items] : n \in 1..MaxItems}}

\* the names, minimum lengths and property lists the callers pass
Names == {N_r1, N_r2}

MinLengths == {1, Len(W_object \o SP \o W_regulator)}

PropNames == {W_name, W_phases, W_regulator}

PropLists == UNION {[1..n -> PropNames] : n \in 1..MaxProps}

NoCall ==
  [op |-> "none", startInd |-> -1, name |-> <<>>, objRegEx |-> "none",
   minLength |-> 0, props |-> <<>>, extracted |-> <<>>]

----------------------------------------------------------------------------
(* The state machine: one call of the extractor or of the resolver on the  *)
(* document, then a splice of the extracted dictionary or a property read  *)
(* on its text.  pre is strModel as it was before the last call, and       *)
(* call.extracted is the text d['obj'] held before the caller replaced it. *)

Init ==
  /\ strModel \in Docs
  /\ pc = "idle"
  /\ call = NoCall
  /\ d = NoDict
  /\ exc = NoExc
  /\ outDict = <<>>
  /\ pre = strModel

ExtractObject(startInd) ==
  /\ pc = "idle"
  /\ d' = extractObject(strModel, startInd)
  /\ call' = [NoCall EXCEPT !.op = "extractObject", !.startInd = startInd]
  /\ pc' = "extracted"
  /\ pre' = strModel
  /\ UNCHANGED <<strModel, exc, outDict>>

ExtractObjectByNameAndType(name, objRegEx, minLength) ==
  /\ pc = "idle"
  /\ LET r == extractObjectByNameAndType(strModel, name, objRegEx, minLength)
     IN /\ d' = r.d
        /\ exc' = r.exc
        /\ pc' = IF r.exc = NoExc THEN "extracted" ELSE "raised"
  /\ call' = [NoCall EXCEPT !.op = "extractObjectByNameAndType",
                            !.name = name, !.objRegEx = objRegEx,
                            !.minLength = minLength]
  /\ pre' = strModel
  /\ UNCHANGED <<strModel, outDict>>

\* the texts a caller stores in d['obj'] before the splice: the extracted
\* text itself, nothing, or the text with a statement appended
NewObjs(obj) == {obj, <<>>, obj \o <<"x", ";">>}

ReplaceObject(obj) ==
  /\ pc = "extracted"
  /\ d' = [d EXCEPT !.obj = obj]
  /\ strModel' = replaceObject(strModel, d')
  /\ pre' = strModel
  /\ call' = [call EXCEPT !.op = "replaceObject", !.extracted = d.obj]
  /\ pc' = "replaced"
  /\ UNCHANGED <<exc, outDict>>

\* The callers read the properties of an object they extracted by name and
\* type or at the match of an object pattern.
ExtractProperties(props) ==
  /\ pc = "extracted"
  /\ \/ call.op = "extractObjectByNameAndType"
     \/ OBJ_REGEX(strModel, d.start, Len(strModel))
  /\ LET r == extractProperties(d.obj, props)
     IN /\ exc' = r.exc
        /\ outDict' = r.outDict
  /\ call' = [call EXCEPT !.op = "extractProperties", !.props = props]
  /\ pc' = "props"
  /\ pre' = strModel
  /\ UNCHANGED <<strModel, d>>

Next ==
  \/ \E startInd \in 0..Len(strModel) : ExtractObject(startInd)
  \/ \E name \in Names, objRegEx \in ObjRegExes, minLength \in MinLengths :
       ExtractObjectByNameAndType(name, objRegEx, minLength)
  \/ \E obj \in NewObjs(d.obj) : ReplaceObject(obj)
  \/ \E props \in PropLists : ExtractProperties(props)

Spec == Init /\ [][Next]_vars

----------------------------------------------------------------------------
(* Brace depth, as the specification defines it: the number of "{" minus   *)
(* the number of "}" among the k characters of s that follow offset start. *)

RelDepth(s, start, k) ==
  Cardinality({i \in (start + 1)..(start + k) : s[i] = "{"})
    - Cardinality({i \in (start + 1)..(start + k) : s[i] = "}"})

Depth(s, k) == RelDepth(s, 0, k)

Balanced(obj) ==
  /\ \A k \in 0..Len(obj) : Depth(obj, k) >= 0
  /\ \E k \in 0..Len(obj) : Depth(obj, k) > 0
  /\ Depth(obj, Len(obj)) = 0

\* the offsets p at which the depth counted from start is back at 0 after
\* having been positive
CloseOffsets(s, start) ==
  {p \in start..(Len(s) - 1) :
     /\ RelDepth(s, start, p + 1 - start) = 0
     /\ \E q \in start..p : RelDepth(s, start, q + 1 - start) > 0}

AfterExtractObject == pc = "extracted" /\ call.op = "extractObject"

AfterResolve == call.op = "extractObjectByNameAndType"

----------------------------------------------------------------------------
(* Claims                                                                  *)

\* C1: every span extractObject returns has a text whose brace depth is
\* never negative at a prefix, positive at some prefix and 0 at its end.
C1_BalancedSpan == AfterExtractObject => Balanced(d.obj)

\* C2: extractObject started at an object's keyword returns the span that
\* ends right after the first offset where the brace depth, having been
\* positive, is back at 0; the text is the document's text up to there, so
\* a nested child object is inside it and the span is not cut at the
\* child's closing brace.
C2_NestedContainment ==
  (/\ AfterExtractObject
   /\ OBJ_REGEX(strModel, call.startInd, Len(strModel))
   /\ CloseOffsets(strModel, call.startInd) # {})
  => LET p == MinOf(CloseOffsets(strModel, call.startInd))
     IN /\ d.start = call.startInd
        /\ d.end = p + 1
        /\ d.obj = SubSeq(strModel, call.startInd + 1, p + 1)

C2_Witness ==
  /\ AfterExtractObject
  /\ OBJ_REGEX(strModel, call.startInd, Len(strModel))
  /\ CloseOffsets(strModel, call.startInd) # {}
  /\ \E k \in 0..Len(d.obj) : Depth(d.obj, k) = 2
  /\ d.end < Len(strModel)

\* C3: when the scan of extractObject reaches the end of the buffer without
\* the brace depth having returned to 0 after opening, the call fails with
\* MalformedDocument instead of returning a span.
C3_MalformedDocument ==
  (/\ call.op = "extractObject"
   /\ CloseOffsets(pre, call.startInd) = {})
  => exc.type = "MalformedDocument" /\ pc # "extracted"

\* C4: replaceObject(d) with d['obj'] as extractObject or
\* extractObjectByNameAndType returned it leaves strModel identical to what
\* it was.
C4_RoundTrip ==
  (pc = "replaced" /\ d.obj = call.extracted) => strModel = pre

C4_Witness ==
  /\ pc = "replaced"
  /\ d.obj = call.extracted
  /\ call.objRegEx # "none"
  /\ d.start > 0
  /\ d.end < Len(pre)
  /\ strModel = pre

\* C5: replaceObject replaces exactly [start, end) by obj: the characters
\* before start are unchanged, the characters from end on are unchanged
\* and moved by len(obj) - (end - start), the length grows by that delta.
C5_SpliceFrame ==
  pc = "replaced" =>
    LET delta == Len(d.obj) - (d.end - d.start)
    IN /\ Len(strModel) = Len(pre) + delta
       /\ \A i \in 0..(d.start - 1) : strModel[i + 1] = pre[i + 1]
       /\ \A k \in 1..Len(d.obj) : strModel[d.start + k] = d.obj[k]
       /\ \A i \in d.end..(Len(pre) - 1) : strModel[i + delta + 1] = pre[i + 1]

C5_Witness ==
  /\ pc = "replaced"
  /\ Len(d.obj) > d.end - d.start
  /\ d.start > 0
  /\ d.end < Len(pre)
  /\ Len(strModel) > Len(pre)

\* the offsets before the name statement at f where objRegEx matches in the
\* text that precedes the statement
TypeOffsets(objRegEx, s, f) == {p \in 0..f : regexMatch(objRegEx, s, p, f)}

\* C6: with the name statement occurring more than once, the span that
\* extractObjectByNameAndType returns is the one of the first occurrence
\* in document order: it starts at the nearest objRegEx match before that
\* first statement, never after it.
C6_FirstNameWins ==
  (/\ AfterResolve
   /\ pc = "extracted"
   /\ Cardinality(nameMatches(call.name, strModel)) >= 2)
  => LET f == MinOf(nameMatches(call.name, strModel))
     IN /\ d.start < f
        /\ d.start = MaxOf(TypeOffsets(call.objRegEx, strModel, f))
        /\ d.obj = PySlice(strModel, d.start, d.end)

C6_Witness ==
  /\ AfterResolve
  /\ pc = "extracted"
  /\ Cardinality(nameMatches(call.name, strModel)) >= 2
  /\ LET f1 == MinOf(nameMatches(call.name, strModel))
         f2 == MaxOf(nameMatches(call.name, strModel))
     IN /\ d.start < f1 /\ f1 < d.end
        /\ d.end <= f2
        /\ \E p \in d.end..f2 : regexMatch(call.objRegEx, strModel, p, f2)

\* C7: a span returned by extractObjectByNameAndType starts where objRegEx
\* matches and contains the matched name statement.
C7_EnclosingObject ==
  (AfterResolve /\ pc = "extracted")
  => LET f == searchName(call.name, strModel)
     IN /\ regexMatch(call.objRegEx, strModel, d.start, Len(strModel))
        /\ d.start <= f
        /\ OBJY_BY_NAME(call.name, strModel, f) <= d.end

\* C8: extractObjectByNameAndType raises ObjNotFoundError and leaves
\* strModel unchanged when there is no name statement, and when there is
\* one but objRegEx matches at no offset from 0 up to it; when objRegEx
\* matches at offset 0 the call succeeds.
C8_ObjNotFound ==
  AfterResolve =>
    LET f == searchName(call.name, pre)
        raised == pc = "raised" /\ exc.type = "ObjNotFoundError"
                    /\ exc.arg = call.name
    IN /\ strModel = pre
       /\ f = -1 => raised
       /\ (f # -1 /\ TypeOffsets(call.objRegEx, pre, f) = {}) => raised
       /\ (f # -1 /\ regexMatch(call.objRegEx, pre, 0, f))
            => pc = "extracted" /\ exc = NoExc

C8_Witness ==
  /\ AfterResolve
  /\ pc = "raised"
  /\ exc.type = "ObjNotFoundError"
  /\ searchName(call.name, pre) > call.minLength
  /\ TypeOffsets(call.objRegEx, pre, searchName(call.name, pre)) = {}
  /\ strModel = pre

\* a statement of objString starts at offset i: the nearest character
\* before i that is not white space is "{", ";" or "}", or there is none
IsKeyAt(s, i) ==
  \/ \A k \in 1..i : IsSpace(s[k])
  \/ \E j \in 1..i :
       /\ s[j] \in {"{", ";", "}"}
       /\ \A k \in (j + 1)..i : IsSpace(s[k])

\* C9: extractProperties(objString, [p]) returns the value of the first
\* statement whose key is p, not a word p inside the value of another
\* statement or the type word of the object header.
C9_FirstStatementKey ==
  (/\ call.op = "extractProperties"
   /\ Len(call.props) = 1
   /\ exc = NoExc)
  => LET p == call.props[1]
     IN /\ p \in DOMAIN outDict
        /\ IsKeyAt(d.obj, outDict[p].start - Len(p))

PropSet(props) == {props[k] : k \in 1..Len(props)}

Present(objString, props) ==
  {p \in PropSet(props) : propMatches(p, objString) # {}}

\* the match of the property p alone
FirstEntry(objString, p) ==
  LET i == MinOf(propMatches(p, objString))
  IN propEntry(objString, i, propMatchEnd(p, objString, i))

\* C10 as stated: with one requested name absent, the requested names that
\* are present still resolve to their matches.
C10_PerProperty ==
  (/\ call.op = "extractProperties"
   /\ Present(d.obj, call.props) # PropSet(call.props))
  => \A p \in Present(d.obj, call.props) :
       p \in DOMAIN outDict /\ outDict[p] = FirstEntry(d.obj, p)

\* C10 as amended: with a requested name absent, extractProperties raises
\* PropNotInObjError for the first absent name in the order of the request
\* and returns no map; with every requested name present, each name
\* resolves to the match it has when requested alone.
C10_AllOrNothing ==
  call.op = "extractProperties" =>
    LET absent == {k \in 1..Len(call.props) :
                     propMatches(call.props[k], d.obj) = {}}
    IN IF absent = {}
       THEN /\ exc = NoExc
            /\ DOMAIN outDict = PropSet(call.props)
            /\ \A p \in PropSet(call.props) :
                 outDict[p] = FirstEntry(d.obj, p)
       ELSE /\ exc.type = "PropNotInObjError"
            /\ exc.arg = call.props[MinOf(absent)]
            /\ outDict = <<>>

C10_Witness ==
  /\ call.op = "extractProperties"
  /\ Len(call.props) = 2
  /\ propMatches(call.props[1], d.obj) # {}
  /\ propMatches(call.props[2], d.obj) = {}
  /\ exc.type = "PropNotInObjError"
  /\ outDict = <<>>

----------------------------------------------------------------------------
(* modGLM.modObjProps                                                      *)
(* propDict is the dictionary in the order of its items: a sequence of     *)
(* records [prop, value], value being str(value).                          *)

\* one pass of the loop body on objStr: the try with its except branch (the
\* statement is put before the last character of objStr) or its else
\* branch (the match of prop is overwritten); propVal is the dictionary
\* extractProperties returned, exc the exception that was caught
modObjPropsIter(objStr, prop, value) ==
  LET r == extractProperties(objStr, <<prop>>)
  IN IF r.exc.type = "PropNotInObjError"
     THEN [objStr |-> PySlice(objStr, 0, -1) \o SP \o SP \o prop \o SP
                        \o value \o SEMI \o NL \o <<objStr[Len(objStr)]>>,
           propVal |-> <<>>,
           exc |-> r.exc]
     ELSE [objStr |-> PySlice(objStr, 0, r.outDict[prop].start) \o SP
                        \o value \o PyTail(objStr, r.outDict[prop].end),
           propVal |-> r.outDict,
           exc |-> NoExc]

\* a loop that takes the offsets of every property on the text it was
\* called with and writes them on the text as it is after earlier writes
RECURSIVE modObjPropsUpTo_Stale(_, _, _)
modObjPropsUpTo_Stale(objStr, propDict, k) ==
  IF k = 0 THEN [objStr |-> objStr, propVal |-> <<>>, exc |-> NoExc]
  ELSE LET cur == modObjPropsUpTo_Stale(objStr, propDict, k - 1).objStr
           prop == propDict[k].prop
           value == propDict[k].value
           r == extractProperties(objStr, <<prop>>)
       IN IF r.exc.type = "PropNotInObjError"
          THEN [objStr |-> PySlice(cur, 0, -1) \o SP \o SP \o prop \o SP
                             \o value \o SEMI \o NL \o <<cur[Len(cur)]>>,
                propVal |-> <<>>,
                exc |-> r.exc]
          ELSE [objStr |-> PySlice(cur, 0, r.outDict[prop].start) \o SP
                             \o value \o PyTail(cur, r.outDict[prop].end),
                propVal |-> r.outDict,
                exc |-> NoExc]

\* the loop over propDict.items() after its first k passes
RECURSIVE modObjPropsUpTo(_, _, _)
modObjPropsUpTo(objStr, propDict, k) ==
  IF k = 0 THEN [objStr |-> objStr, propVal |-> <<>>, exc |-> NoExc]
  ELSE modObjPropsIter(modObjPropsUpTo(objStr, propDict, k - 1).objStr,
                       propDict[k].prop, propDict[k].value)

modObjProps(objStr, propDict) ==
  modObjPropsUpTo(objStr, propDict, Len(propDict)).objStr

----------------------------------------------------------------------------
(* The object texts and property maps handed to modObjProps.               *)

W_tap_A == <<"t","a","p","_","A">>
W_groupid == <<"g","r","o","u","p","i","d">>
V_7 == <<"7">>
V_quoted == <<"\"","g","\"">>
COMMENT == <<"/","/">>

\* object regulator {\nname r1;\ntap_A 5;\n}
ObjTap ==
  W_object \o SP \o W_regulator \o SP \o LB \o NL \o W_name \o SP \o N_r1
    \o SEMI \o NL \o W_tap_A \o SP \o <<"5">> \o SEMI \o NL \o RB

\* object regulator {\nname r1;\n// tap_A\n}
ObjComment ==
  W_object \o SP \o W_regulator \o SP \o LB \o NL \o W_name \o SP \o N_r1
    \o SEMI \o NL \o COMMENT \o SP \o W_tap_A \o NL \o RB

\* object capacitor {group name r2;}
ObjGroup ==
  W_object \o SP \o W_capacitor \o SP \o LB \o W_group \o SP \o W_name \o SP
    \o N_r2 \o SEMI \o RB

ObjTexts == {ObjTap, ObjComment, ObjGroup, ItemB, ItemC}

ModKeys == {W_name, W_tap_A, W_groupid}

ModValues == {V_7, V_quoted}

\* the dictionaries of at most MaxProps items, their keys distinct
PropDicts ==
  {m \in UNION {[1..n -> [prop : ModKeys, value : ModValues]] :
                  n \in 1..MaxProps} :
     \A i, j \in 1..Len(m) : i # j => m[i].prop # m[j].prop}

\* the frame of a call of modObjProps: k passes of the loop are done, pass
\* counts the calls, first is what the first call returned
ModCall(objStr, propDict, pass, first) ==
  [op |-> "modObjProps", objStr |-> objStr, propDict |-> propDict, k |-> 0,
   pass |-> pass, first |-> first]

----------------------------------------------------------------------------
(* The state machine of modObjProps: a caller hands d['obj'] and a         *)
(* dictionary to modObjProps, the loop runs pass by pass, and the caller   *)
(* calls again with the text it got back and the same dictionary.  pre is  *)
(* objStr as it was before the last pass, outDict and exc what the last    *)
(* extractProperties call of the loop gave.                                *)

InitMod ==
  /\ strModel \in ObjTexts
  /\ pc = "modObjProps"
  /\ call \in {ModCall(strModel, m, 1, <<>>) : m \in PropDicts}
  /\ d = [start |-> 0, end |-> Len(strModel), obj |-> strModel]
  /\ exc = NoExc
  /\ outDict = <<>>
  /\ pre = strModel

ModIter ==
  /\ pc = "modObjProps"
  /\ call.k < Len(call.propDict)
  /\ LET r == modObjPropsUpTo(call.objStr, call.propDict, call.k + 1)
     IN /\ d' = [d EXCEPT !.obj = r.objStr]
        /\ outDict' = r.propVal
        /\ exc' = r.exc
  /\ pre' = d.obj
  /\ call' = [call EXCEPT !.k = call.k + 1]
  /\ UNCHANGED <<strModel, pc>>

ModReturn ==
  /\ pc = "modObjProps"
  /\ call.k = Len(call.propDict)
  /\ pc' = "returned"
  /\ call' = [call EXCEPT !.first = IF call.pass = 1 THEN d.obj
                                    ELSE call.first]
  /\ UNCHANGED <<strModel, d, exc, outDict, pre>>

ModAgain ==
  /\ pc = "returned"
  /\ call.pass = 1
  /\ call' = ModCall(d.obj, call.propDict, 2, call.first)
  /\ pc' = "modObjProps"
  /\ pre' = d.obj
  /\ exc' = NoExc
  /\ outDict' = <<>>
  /\ UNCHANGED <<strModel, d>>

NextMod ==
  \/ ModIter
  \/ ModReturn
  \/ ModAgain

SpecMod == InitMod /\ [][NextMod]_vars

----------------------------------------------------------------------------
(* Claims on modObjProps, under SpecMod.                                   *)

\* the first call of modObjProps has returned
ModReturned == pc = "returned" /\ call.op = "modObjProps" /\ call.pass = 1

\* str(value) as extractProperties gives it back
Stripped(value) == strip(strip(value, SpaceChars), {"\""})

\* the offsets at which a statement of objStr has the key prop
KeyOffsets(objStr, prop) ==
  {i \in 0..(Len(objStr) - 1) :
     /\ litAt(objStr, i, prop, Len(objStr))
     /\ atB(objStr, i, Len(objStr))
     /\ atB(objStr, i + Len(prop), Len(objStr))
     /\ IsKeyAt(objStr, i)}

\* the offset of the first ";" at or after offset j, Len(s) if none
nextSemi(s, j) ==
  LET S == {k \in j..(Len(s) - 1) : s[k + 1] = ";"}
  IN IF S = {} THEN Len(s) ELSE MinOf(S)

\* C11: after result = modObjProps(obj, m), extractProperties(result, [k])
\* succeeds for every key k of m and returns m[k], stripped of white space
\* and quotes.
C11_Postcondition ==
  ModReturned =>
    \A k \in 1..Len(call.propDict) :
      LET prop == call.propDict[k].prop
          r == extractProperties(d.obj, <<prop>>)
      IN /\ r.exc = NoExc
         /\ r.outDict[prop].prop = Stripped(call.propDict[k].value)

\* C12: when k is the key of a statement of the object, modObjProps(obj,
\* {k: v}) changes the value of that statement only: the text up to the end
\* of the key and the text from the ";" of the statement on are the
\* object's, and " v" stands between them.
C12_ReplaceFrame ==
  (/\ ModReturned
   /\ Len(call.propDict) = 1
   /\ KeyOffsets(call.objStr, call.propDict[1].prop) # {})
  => LET prop == call.propDict[1].prop
         i == MinOf(KeyOffsets(call.objStr, prop)) + Len(prop)
     IN d.obj = PySlice(call.objStr, 0, i) \o SP \o call.propDict[1].value
                  \o PyTail(call.objStr, nextSemi(call.objStr, i))

\* C13: when k is the key of no statement of the object, modObjProps(obj,
\* {k: v}) puts the one statement "k v;" right before the final closing
\* brace: the text before that brace is unchanged, the statement follows
\* it, and the result ends with the brace.
C13_AppendFrame ==
  (/\ ModReturned
   /\ Len(call.propDict) = 1
   /\ KeyOffsets(call.objStr, call.propDict[1].prop) = {})
  => LET body == PySlice(call.objStr, 0, -1)
     IN /\ PySlice(d.obj, 0, Len(body)) = body
        /\ strip(PySlice(d.obj, Len(body), -1), SpaceChars)
             = call.propDict[1].prop \o SP \o call.propDict[1].value \o SEMI
        /\ PyTail(d.obj, -1) = RB

\* C14: modObjProps(modObjProps(obj, m), m) = modObjProps(obj, m).
C14_Idempotent ==
  (pc = "returned" /\ call.op = "modObjProps" /\ call.pass = 2)
  => d.obj = call.first

\* C15: every pass of the loop writes at the offsets extractProperties
\* gives on the text as the earlier passes left it (pre): the statement is
\* put before the last character of pre when the property is not found in
\* pre, and the match of the property in pre is overwritten otherwise.
C15_FreshOffsets ==
  (pc = "modObjProps" /\ call.k >= 1)
  => LET prop == call.propDict[call.k].prop
         value == call.propDict[call.k].value
         r == extractProperties(pre, <<prop>>)
     IN IF r.exc.type = "PropNotInObjError"
        THEN /\ exc = r.exc
             /\ d.obj = PySlice(pre, 0, -1) \o SP \o SP \o prop \o SP
                          \o value \o SEMI \o NL \o PyTail(pre, -1)
        ELSE /\ exc = NoExc
             /\ outDict = r.outDict
             /\ d.obj = PySlice(pre, 0, FirstEntry(pre, prop).start) \o SP
                          \o value \o PyTail(pre, FirstEntry(pre, prop).end)

\* the second pass overwrites a match whose offsets the first pass moved
C15_Witness ==
  /\ pc = "modObjProps"
  /\ call.k = 2
  /\ exc = NoExc
  /\ Len(pre) # Len(call.objStr)
  /\ LET prop == call.propDict[2].prop
     IN /\ propMatches(prop, call.objStr) # {}
        /\ FirstEntry(call.objStr, prop).start # outDict[prop].start

----------------------------------------------------------------------------
(* modGLM.addObject, for an object nested into objStr                      *)

W_triplex_meter ==
  <<"t","r","i","p","l","e","x","_","m","e","t","e","r">>
W_metrics_collector ==
  <<"m","e","t","r","i","c","s","_","c","o","l","l","e","c","t","o","r">>
W_interval == <<"i","n","t","e","r","v","a","l">>
V_60 == <<"6","0">>
V_g == <<"g">>

TRIPLEX_METER_REGEX(s, pos, endpos) ==
  objTypeMatch(W_triplex_meter, s, pos, endpos)

\* the offset of the first character at or after offset i that is not ";"
semiEnd(s, i) ==
  MinOf({k \in i..Max(i, Len(s)) : k >= Len(s) \/ s[k + 1] # ";"})

\* OBJEND_REGEX, (\s*)}(\s*)(;*)$, matched at offset i: the offset after
\* the match, or -1; $ is the end of s or the offset of a final newline
OBJEND_REGEX(s, i) ==
  LET n == Len(s)
      a == i + spaceRun(s, i, n)
      b == a + 1 + spaceRun(s, a + 1, n)
      q == semiEnd(s, b)
  IN IF /\ a < n
        /\ s[a + 1] = "}"
        /\ \/ q = n
           \/ q = n - 1 /\ s[n] = "\n"
     THEN q
     ELSE -1

\* the text of the new object: its header, its properties, its end
RECURSIVE propLines(_, _)
propLines(properties, k) ==
  IF k > Len(properties) THEN <<>>
  ELSE SP \o SP \o properties[k].prop \o SP \o properties[k].value \o SEMI
         \o NL \o propLines(properties, k + 1)

addObjectStr(objType, properties) ==
  W_object \o SP \o objType \o SP \o LB \o NL \o propLines(properties, 1)
    \o RB \o SEMI \o NL

\* the branch of addObject with objStr given: the new object is spliced in
\* before the end of objStr; e.span() of None raises AttributeError
addObject(objType, properties, objStr) ==
  LET E == {i \in 0..Len(objStr) : OBJEND_REGEX(objStr, i) # -1}
  IN IF E = {}
     THEN [exc |-> [type |-> "AttributeError", arg |-> <<>>],
           strOut |-> <<>>]
     ELSE LET e == MinOf(E)
          IN [exc |-> NoExc,
              strOut |-> PySlice(objStr, 0, e) \o NL
                           \o addObjectStr(objType, properties)
                           \o PySlice(objStr, e, OBJEND_REGEX(objStr, e))]

----------------------------------------------------------------------------
(* The loops of modGLM.addGroupToObjects and modGLM.addMetricsCollectors   *)

\* the compiled patterns the loops search with
LoopRegExes == {"TRIPLEX_METER_REGEX", "REGOBJ_REGEX"}

patternAt(objectRegex, s, pos, endpos) ==
  IF objectRegex = "TRIPLEX_METER_REGEX"
  THEN TRIPLEX_METER_REGEX(s, pos, endpos)
  ELSE regexMatch(objectRegex, s, pos, endpos)

\* the offsets of s at which the pattern matches
matchOffsets(objectRegex, s) ==
  {i \in 0..Len(s) : patternAt(objectRegex, s, i, Len(s))}

\* objectRegex.search(s, pos): the start of the leftmost match at or after
\* pos, -1 for None
regexSearch(objectRegex, s, pos) ==
  LET M == {i \in matchOffsets(objectRegex, s) : i >= pos}
  IN IF M = {} THEN -1 ELSE MinOf(M)

\* a cursor that is put one character after the start of the match
skipCursor_Inside(mStart, objText) == mStart + 1

\* m.span()[0] + len(obj['obj']) of the except branch
skipCursor(mStart, objText) == mStart + Len(objText)

\* a cursor that is put one character after the start of the match
editCursor_Inside(mStart, objText) == mStart + 1

\* m.span()[0] + len(obj['obj']) after replaceObject
editCursor(mStart, objText) == mStart + Len(objText)

\* nameListC.remove(x): the first x is taken out; -1 stands for ValueError
listIndex(nameListC, x) ==
  LET I == {i \in 1..Len(nameListC) : nameListC[i] = x}
  IN IF I = {} THEN -1 ELSE MinOf(I)

listRemove(nameListC, x) ==
  LET i == listIndex(nameListC, x)
  IN SubSeq(nameListC, 1, i - 1) \o SubSeq(nameListC, i + 1, Len(nameListC))

\* object triplex_meter {name r1;}
MeterA ==
  W_object \o SP \o W_triplex_meter \o SP \o LB \o W_name \o SP \o N_r1
    \o SEMI \o RB

\* object triplex_meter {name r1;object triplex_meter {name r2;}}
MeterNested ==
  W_object \o SP \o W_triplex_meter \o SP \o LB \o W_name \o SP \o N_r1
    \o SEMI \o W_object \o SP \o W_triplex_meter \o SP \o LB \o W_name
    \o SP \o N_r2 \o SEMI \o RB \o RB

\* object triplex_meter {\nphases A;\n}\n
MeterNoName ==
  W_object \o SP \o W_triplex_meter \o SP \o LB \o NL \o W_phases \o SP
    \o <<"A">> \o SEMI \o NL \o RB \o NL

\* object triplex_meter {
MeterOpen == W_object \o SP \o W_triplex_meter \o SP \o LB

LoopItems == {MeterA, MeterNested, MeterNoName, MeterOpen, ItemB}

LoopDocs ==
  {Flatten(q) : q \in UNION {[1..n -> LoopItems] : n \in 1..MaxItems}}

\* nameList: None (given is FALSE), or a list of object names
NoneList == [given |-> FALSE, names |-> <<>>]

NameLists ==
  {NoneList, [given |-> TRUE, names |-> <<N_r2>>],
   [given |-> TRUE, names |-> <<N_r1, N_r2>>]}

NoVisit == [kind |-> "none", start |-> -1, orig |-> <<>>, new |-> <<>>]

\* the frame of a loop: m is m.span()[0] or -1 for None, cursor the offset
\* the last search started at and prevCursor the one before, iters and
\* edits count the passes and the objects replaced, last is the last pass,
\* doc0 is strModel at the call
LoopCall(op, objectRegex, groupName, nameList, interval, m) ==
  [op |-> op, objectRegex |-> objectRegex, groupName |-> groupName,
   nameList |-> nameList, nameListC |-> nameList, interval |-> interval,
   m |-> m, cursor |-> 0, prevCursor |-> 0, iters |-> 0, edits |-> 0,
   last |-> NoVisit, doc0 |-> strModel]

----------------------------------------------------------------------------
(* The state machine of the loops: a call of addGroupToObjects or of       *)
(* addMetricsCollectors on the document, then the passes of its while      *)
(* loop, one object each.  pre is strModel as it was before the last pass  *)
(* (before the call, until the first pass).                                *)

InitLoop ==
  /\ strModel \in LoopDocs
  /\ pc = "idle"
  /\ call = LoopCall("none", "none", <<>>, NoneList, <<>>, -1)
  /\ d = NoDict
  /\ exc = NoExc
  /\ outDict = <<>>
  /\ pre = strModel

AddGroupToObjects(objectRegex, groupName, nameList) ==
  /\ pc = "idle"
  /\ call' = LoopCall("addGroupToObjects", objectRegex, groupName, nameList,
                      <<>>, regexSearch(objectRegex, strModel, 0))
  /\ pc' = "loop"
  /\ UNCHANGED <<strModel, d, exc, outDict, pre>>

AddMetricsCollectors(interval) ==
  /\ pc = "idle"
  /\ call' = LoopCall("addMetricsCollectors", "TRIPLEX_METER_REGEX", <<>>,
                      NoneList, interval,
                      regexSearch("TRIPLEX_METER_REGEX", strModel, 0))
  /\ pc' = "loop"
  /\ UNCHANGED <<strModel, d, exc, outDict, pre>>

\* the frame after a pass that left the cursor at offset c
afterPass(kind, obj, new, c, s, nameListC, isEdit) ==
  [call EXCEPT !.m = regexSearch(call.objectRegex, s, c),
               !.cursor = c,
               !.prevCursor = call.cursor,
               !.iters = call.iters + 1,
               !.edits = call.edits + (IF isEdit THEN 1 ELSE 0),
               !.nameListC = nameListC,
               !.last = [kind |-> kind, start |-> call.m, orig |-> obj,
                         new |-> new]]

\* one pass of the while loop of addGroupToObjects: the values of the
\* variables after it
groupPass ==
  LET obj == extractObject(strModel, call.m)
      n == IF ~call.nameList.given
           THEN [exc |-> NoExc, outDict |-> <<>>]
           ELSE extractProperties(obj.obj, <<W_name>>)
      new == modObjProps(obj.obj, <<[prop |-> W_groupid,
                                     value |-> call.groupName]>>)
      newModel == replaceObject(strModel, [obj EXCEPT !.obj = new])
  IN IF n.exc # NoExc
     THEN [pc |-> "raised", exc |-> n.exc, d |-> obj, strModel |-> strModel,
           call |-> call, outDict |-> outDict, pre |-> pre]
     ELSE IF /\ call.nameList.given
             /\ listIndex(call.nameListC.names, n.outDict[W_name].prop) = -1
     THEN [pc |-> pc, exc |-> exc, d |-> obj, strModel |-> strModel,
           call |-> afterPass("skip", obj.obj, obj.obj,
                              skipCursor(call.m, obj.obj), strModel,
                              call.nameListC, FALSE),
           outDict |-> n.outDict, pre |-> strModel]
     ELSE [pc |-> pc, exc |-> exc, d |-> [obj EXCEPT !.obj = new],
           strModel |-> newModel,
           call |-> afterPass("edit", obj.obj, new, editCursor(call.m, new),
                              newModel,
                              IF ~call.nameList.given THEN NoneList
                              ELSE [call.nameListC EXCEPT !.names =
                                      listRemove(@, n.outDict[W_name].prop)],
                              TRUE),
           outDict |-> n.outDict, pre |-> strModel]

GroupPass ==
  /\ pc = "loop"
  /\ call.op = "addGroupToObjects"
  /\ call.m # -1
  /\ pc' = groupPass.pc
  /\ exc' = groupPass.exc
  /\ d' = groupPass.d
  /\ strModel' = groupPass.strModel
  /\ call' = groupPass.call
  /\ outDict' = groupPass.outDict
  /\ pre' = groupPass.pre

\* one pass of the while loop of addMetricsCollectors: the values of the
\* variables after it
metricsPass ==
  LET tObj == extractObject(strModel, call.m)
      r == addObject(W_metrics_collector,
                     <<[prop |-> W_interval, value |-> call.interval]>>,
                     tObj.obj)
      newModel == replaceObject(strModel, [tObj EXCEPT !.obj = r.strOut])
  IN IF r.exc # NoExc
     THEN [pc |-> "raised", exc |-> r.exc, d |-> tObj,
           strModel |-> strModel, call |-> call, pre |-> pre]
     ELSE [pc |-> pc, exc |-> exc, d |-> [tObj EXCEPT !.obj = r.strOut],
           strModel |-> newModel,
           call |-> afterPass("edit", tObj.obj, r.strOut,
                              editCursor(call.m, r.strOut), newModel,
                              NoneList, TRUE),
           pre |-> strModel]

MetricsPass ==
  /\ pc = "loop"
  /\ call.op = "addMetricsCollectors"
  /\ call.m # -1
  /\ pc' = metricsPass.pc
  /\ exc' = metricsPass.exc
  /\ d' = metricsPass.d
  /\ strModel' = metricsPass.strModel
  /\ call' = metricsPass.call
  /\ pre' = metricsPass.pre
  /\ UNCHANGED outDict

\* while m: ends with m None
LoopReturn ==
  /\ pc = "loop"
  /\ call.m = -1
  /\ pc' = "done"
  /\ UNCHANGED <<strModel, call, d, exc, outDict, pre>>

NextLoop ==
  \/ \E objectRegex \in LoopRegExes, nameList \in NameLists :
       AddGroupToObjects(objectRegex, V_g, nameList)
  \/ AddMetricsCollectors(V_60)
  \/ GroupPass
  \/ MetricsPass
  \/ LoopReturn

SpecLoop == InitLoop /\ [][NextLoop]_vars

----------------------------------------------------------------------------
(* Claims on the loops, under SpecLoop.                                    *)

\* C16: for a document with N objects that match the pattern when
\* addGroupToObjects(objectRegex, groupName) starts, nested ones included,
\* the loop replaces N objects, and afterwards the document has N matching
\* objects and each of them has a groupid statement.
C16_IterateAllOnce ==
  (/\ pc = "done"
   /\ call.op = "addGroupToObjects"
   /\ ~call.nameList.given)
  => LET N == Cardinality(matchOffsets(call.objectRegex, call.doc0))
     IN /\ call.edits = N
        /\ Cardinality(matchOffsets(call.objectRegex, strModel)) = N
        /\ \A i \in matchOffsets(call.objectRegex, strModel) :
             KeyOffsets(extractObject(strModel, i).obj, W_groupid) # {}

\* C17: after a pass replaced the object matched at offset s by
\* newObjectText, the search started at s + len(newObjectText): that text
\* stands at [s, cursor), the next match lies at or after the cursor, and
\* the object of the pass lay at or after the cursor of the pass before.
C17_SearchAfterRegion ==
  (/\ pc \in {"loop", "done"}
   /\ call.last.kind = "edit")
  => /\ call.cursor = call.last.start + Len(call.last.new)
     /\ PySlice(strModel, call.last.start, call.cursor) = call.last.new
     /\ call.m # -1 => call.m >= call.cursor
     /\ call.last.start >= call.prevCursor

\* a second triplex_meter got its metrics_collector after the first
C17_Witness ==
  /\ call.op = "addMetricsCollectors"
  /\ call.iters = 2
  /\ call.last.kind = "edit"
  /\ Len(call.last.new) > Len(call.last.orig)
  /\ call.last.start >= call.prevCursor
  /\ call.prevCursor > 0

\* C18: addGroupToObjects with a nameList ends on every document: a pass
\* that skips an object leaves the document unchanged and puts the cursor
\* at match start + len(object text); every pass, skip or edit, puts the
\* cursor further than it was and leaves less text after the cursor than
\* there was, so the passes are at most as many as the characters; and the
\* loop has returned only with no match left at or after the cursor.
C18_CursorAdvances ==
  (/\ pc \in {"loop", "done"}
   /\ call.op = "addGroupToObjects"
   /\ call.nameList.given
   /\ call.iters >= 1)
  => /\ call.cursor > call.prevCursor
     /\ Len(strModel) - call.cursor >= 0
     /\ Len(strModel) - call.cursor < Len(pre) - call.prevCursor
     /\ call.last.kind = "skip" =>
          /\ strModel = pre
          /\ call.last.orig = extractObject(pre, call.last.start).obj
          /\ call.cursor = call.last.start + Len(call.last.orig)
     /\ pc = "done" =>
          regexSearch(call.objectRegex, strModel, call.cursor) = -1

\* an object whose name is not in the list was skipped, then the loop ended
C18_Witness ==
  /\ pc = "done"
  /\ call.op = "addGroupToObjects"
  /\ call.nameList.given
  /\ call.iters >= 2
  /\ call.last.kind = "skip"
  /\ call.edits >= 1

----------------------------------------------------------------------------
(* modGLM.updateClock and modGLM.updatePowerflow                           *)

W_clock == <<"c","l","o","c","k">>
W_timezone == <<"t","i","m","e","z","o","n","e">>
W_starttime == <<"s","t","a","r","t","t","i","m","e">>
W_stoptime == <<"s","t","o","p","t","i","m","e">>
W_module == <<"m","o","d","u","l","e">>
W_powerflow == <<"p","o","w","e","r","f","l","o","w">>
W_solver_method ==
  <<"s","o","l","v","e","r","_","m","e","t","h","o","d">>
W_line_capacitance ==
  <<"l","i","n","e","_","c","a","p","a","c","i","t","a","n","c","e">>
W_lu_solver == <<"l","u","_","s","o","l","v","e","r">>
V_NR == <<"N","R">>
V_FBS == <<"F","B","S">>
V_TRUE == <<"T","R","U","E">>
V_KLU == <<"\"","K","L","U","\"">>
V_PST == <<"P","S","T">>
V_start == <<"1"," ","0">>
V_stop == <<"2"," ","0">>
QUOTE == <<"'">>

\* CLOCK_REGEX, \bclock\b(\s*)(?={), matched at offset pos
CLOCK_REGEX(s, pos) ==
  LET n == Len(s)
      a == pos + Len(W_clock)
      b == a + spaceRun(s, a, n)
  IN /\ atB(s, pos, n)
     /\ litAt(s, pos, W_clock, n)
     /\ atB(s, a, n)
     /\ b < n
     /\ s[b + 1] = "{"

\* POWERFLOW_REGEX, \bmodule\b(\s+)\bpowerflow\b, matched at offset pos
POWERFLOW_REGEX(s, pos) ==
  LET n == Len(s)
      a == pos + Len(W_module)
      b == a + spaceRun(s, a, n)
  IN /\ atB(s, pos, n)
     /\ litAt(s, pos, W_module, n)
     /\ atB(s, a, n)
     /\ b > a
     /\ atB(s, b, n)
     /\ litAt(s, b, W_powerflow, n)
     /\ atB(s, b + Len(W_powerflow), n)

clockMatches(s) == {i \in 0..Len(s) : CLOCK_REGEX(s, i)}

pfMatches(s) == {i \in 0..Len(s) : POWERFLOW_REGEX(s, i)}

\* one item of propDict, or none when the argument is None or empty
propItem(prop, value) ==
  IF value = <<>> THEN <<>> ELSE <<[prop |-> prop, value |-> value]>>

\* "'{}'".format(value), or nothing when the argument is None or empty
quoted(value) == IF value = <<>> THEN <<>> ELSE QUOTE \o value \o QUOTE

\* one line "  prop value;\n" of a new block, or none
propLine(prop, value) ==
  IF value = <<>> THEN <<>>
  ELSE SP \o SP \o prop \o SP \o value \o SEMI \o NL

\* the document and the extracted dictionary after updateClock
updateClock(s, starttime, stoptime, timezone) ==
  IF clockMatches(s) # {}
  THEN LET clock == extractObject(s, MinOf(clockMatches(s)))
           propDict == propItem(W_starttime, quoted(starttime))
                         \o propItem(W_stoptime, quoted(stoptime))
                         \o propItem(W_timezone, timezone)
           new == [clock EXCEPT !.obj = modObjProps(clock.obj, propDict)]
       IN [strModel |-> replaceObject(s, new), d |-> new]
  ELSE [strModel |-> W_clock \o SP \o LB \o NL
                       \o propLine(W_timezone, timezone)
                       \o propLine(W_starttime, quoted(starttime))
                       \o propLine(W_stoptime, quoted(stoptime))
                       \o RB \o NL \o s,
        d |-> NoDict]

\* the document and the extracted dictionary after updatePowerflow
updatePowerflow(s, solver_method, line_capacitance, lu_solver) ==
  IF pfMatches(s) # {}
  THEN LET pf == extractObject(s, MinOf(pfMatches(s)))
           propDict == <<[prop |-> W_solver_method, value |-> solver_method],
                         [prop |-> W_line_capacitance,
                          value |-> line_capacitance]>>
                         \o propItem(W_lu_solver, lu_solver)
           new == [pf EXCEPT !.obj = modObjProps(pf.obj, propDict)]
       IN [strModel |-> replaceObject(s, new), d |-> new]
  ELSE [strModel |-> W_module \o SP \o W_powerflow \o SP \o LB \o NL
                       \o SP \o SP \o W_solver_method \o SP \o solver_method
                       \o SEMI \o NL
                       \o SP \o SP \o W_line_capacitance \o SP
                       \o line_capacitance \o SEMI \o NL
                       \o propLine(W_lu_solver, lu_solver)
                       \o RB \o SEMI \o NL \o s,
        d |-> NoDict]

----------------------------------------------------------------------------
(* The documents with at most one clock and one powerflow module.          *)

\* clock {\n  timezone PST;\n}\n
ClockBlock ==
  W_clock \o SP \o LB \o NL \o SP \o SP \o W_timezone \o SP \o V_PST \o SEMI
    \o NL \o RB \o NL

\* clock {\n  // starttime\n}\n
ClockComment ==
  W_clock \o SP \o LB \o NL \o SP \o SP \o COMMENT \o SP \o W_starttime
    \o NL \o RB \o NL

\* module powerflow {\n  solver_method FBS;\n};\n
PfBlock ==
  W_module \o SP \o W_powerflow \o SP \o LB \o NL \o SP \o SP
    \o W_solver_method \o SP \o V_FBS \o SEMI \o NL \o RB \o SEMI \o NL

\* module powerflow;\n
PfBare == W_module \o SP \o W_powerflow \o SEMI \o NL

BlockItems == {ClockBlock, ClockComment, PfBlock, PfBare, ItemB}

BlockDocs ==
  {s \in {Flatten(q) : q \in UNION {[1..n -> BlockItems] :
                                      n \in 1..MaxItems}} :
     /\ Cardinality(clockMatches(s)) <= 1
     /\ Cardinality(pfMatches(s)) <= 1}

\* the arguments: <<>> stands for None
BlockCall(op, args, n, doc0, once) ==
  [op |-> op, args |-> args, n |-> n, doc0 |-> doc0, once |-> once]

----------------------------------------------------------------------------
(* The state machine of the block updates: updateClock or updatePowerflow  *)
(* is called on the document, and called once more with the arguments of   *)
(* the first call.  call.doc0 is the document before the first call,       *)
(* call.once the document after it, pre the document before the last call. *)

InitBlock ==
  /\ strModel \in BlockDocs
  /\ pc = "idle"
  /\ call = BlockCall("none", <<>>, 0, strModel, <<>>)
  /\ d = NoDict
  /\ exc = NoExc
  /\ outDict = <<>>
  /\ pre = strModel

\* the first call, or the second one of the same method and arguments
BlockCallEnabled(op, args) ==
  \/ pc = "idle"
  \/ pc = "updated" /\ call.n = 1 /\ call.op = op /\ call.args = args

UpdateClock(starttime, stoptime, timezone) ==
  /\ BlockCallEnabled("updateClock", <<starttime, stoptime, timezone>>)
  /\ LET r == updateClock(strModel, starttime, stoptime, timezone)
     IN /\ strModel' = r.strModel
        /\ d' = r.d
        /\ call' = BlockCall("updateClock", <<starttime, stoptime, timezone>>,
                             call.n + 1, call.doc0,
                             IF call.n = 0 THEN r.strModel ELSE call.once)
  /\ pc' = "updated"
  /\ pre' = strModel
  /\ UNCHANGED <<exc, outDict>>

UpdatePowerflow(solver_method, line_capacitance, lu_solver) ==
  /\ BlockCallEnabled("updatePowerflow",
                      <<solver_method, line_capacitance, lu_solver>>)
  /\ LET r == updatePowerflow(strModel, solver_method, line_capacitance,
                              lu_solver)
     IN /\ strModel' = r.strModel
        /\ d' = r.d
        /\ call' = BlockCall("updatePowerflow",
                             <<solver_method, line_capacitance, lu_solver>>,
                             call.n + 1, call.doc0,
                             IF call.n = 0 THEN r.strModel ELSE call.once)
  /\ pc' = "updated"
  /\ pre' = strModel
  /\ UNCHANGED <<exc, outDict>>

NextBlock ==
  \/ \E starttime \in {<<>>, V_start}, stoptime \in {<<>>, V_stop},
        timezone \in {<<>>, V_PST} :
       UpdateClock(starttime, stoptime, timezone)
  \/ \E lu_solver \in {<<>>, V_KLU} : UpdatePowerflow(V_NR, V_TRUE, lu_solver)

SpecBlock == InitBlock /\ [][NextBlock]_vars

----------------------------------------------------------------------------
(* Claims on the block updates, under SpecBlock.                           *)

\* the offsets at which the selector of the method matches
selectorMatches(op, s) ==
  IF op = "updateClock" THEN clockMatches(s) ELSE pfMatches(s)

\* the offset after the words of the selector matched at offset i
selectorEnd(op, s, i) ==
  IF op = "updateClock" THEN i + Len(W_clock)
  ELSE LET a == i + Len(W_module)
       IN a + spaceRun(s, a, Len(s)) + Len(W_powerflow)

\* the offset after the block whose selector matches at offset i: after
\* the brace that closes the block when a "{" follows the selector, after
\* the ";" of the declaration when none does
blockEnd(op, s, i) ==
  LET e == selectorEnd(op, s, i)
      j == e + spaceRun(s, e, Len(s))
  IN IF j < Len(s) /\ s[j + 1] = "{"
     THEN IF CloseOffsets(s, j) = {} THEN Len(s)
          ELSE MinOf(CloseOffsets(s, j)) + 1
     ELSE Min(nextSemi(s, j) + 1, Len(s))

\* C19: a second call of updateClock (updatePowerflow) with the arguments
\* of the first leaves the document as the first call left it, with one
\* clock (powerflow module) block, whether the block was there before the
\* first call or not.
C19_TwiceIsOnce ==
  (pc = "updated" /\ call.n = 2)
  => /\ strModel = call.once
     /\ Cardinality(selectorMatches(call.op, strModel)) = 1

\* C20: when the block exists, updateClock and updatePowerflow extract the
\* block itself and change no character outside it, for a block in braces
\* and for the declaration "module powerflow;" alike.
C20_OnlyTheBlock ==
  (/\ pc = "updated"
   /\ call.n = 1
   /\ selectorMatches(call.op, call.doc0) # {})
  => LET i == MinOf(selectorMatches(call.op, call.doc0))
         e == blockEnd(call.op, call.doc0, i)
         k == Len(call.doc0) - e
     IN /\ d.start = i
        /\ d.end = e
        /\ PySlice(strModel, 0, i) = PySlice(call.doc0, 0, i)
        /\ Len(strModel) >= i + k
        /\ SubSeq(strModel, Len(strModel) - k + 1, Len(strModel))
             = SubSeq(call.doc0, e + 1, Len(call.doc0))

----------------------------------------------------------------------------
(* commandRegulators and commandCapacitors.  reg and cap are sequences of  *)
(* entries in the order in which the dictionary yields its keys; a phase   *)
(* entry holds the states it was given, <<>> standing for a key that is    *)
(* not in the dictionary, and so does Control (control for a capacitor).   *)

MaxCalls == 2

W_tap_ == <<"t","a","p","_">>
W_tap_pos_ == <<"t","a","p","_","p","o","s","_">>
W_Control == <<"C","o","n","t","r","o","l">>
W_control == <<"c","o","n","t","r","o","l">>
W_switch == <<"s","w","i","t","c","h">>
V_MANUAL == <<"M","A","N","U","A","L">>
V_OPEN == <<"O","P","E","N">>
V_3 == <<"3">>
N_c1 == <<"c","1">>
N_c2 == <<"c","2">>

\* newState if it exists, otherwise prevState
phaseState(ph) == IF ph.newState # <<>> THEN ph.newState ELSE ph.prevState

phaseDict(prefix, phases) ==
  [k \in 1..Len(phases) |->
     [prop |-> prefix \o phases[k].p, value |-> phaseState(phases[k])]]

controlItem(key, value) ==
  IF value = <<>> THEN <<>> ELSE <<[prop |-> key, value |-> value]>>

\* one pass of the loop of commandRegulators, r the entry of the regulator
\* the configuration object of the pass: it is looked up in s1, the
\* document that already holds the new regulator
commandConfiguration(s1, confName, confPropDict) ==
  TheOne({
    IF e2.exc.type # "none" THEN [strModel |-> s1, exc |-> e2.exc]
    ELSE [strModel |-> replaceObject(s1,
            [e2.d EXCEPT !.obj = modObjProps(e2.d.obj, confPropDict)]),
          exc |-> NoExc]
    : e2 \in {extractObjectByNameAndType(s1, confName, "REGCONF_REGEX",
                Len(W_object \o SP \o W_regulator_configuration))}})

commandRegulatorsIter(s, r) ==
  TheOne({
    IF e.exc.type # "none" THEN [strModel |-> s, exc |-> e.exc]
    ELSE
      TheOne({
        IF c.exc.type # "none" THEN [strModel |-> s, exc |-> c.exc]
        ELSE
          LET regPropDict == phaseDict(W_tap_, r.phases)
              confPropDict == phaseDict(W_tap_pos_, r.phases)
                                \o controlItem(W_Control, r.Control)
          IN TheOne({
               commandConfiguration(s1, c.outDict[W_configuration].prop,
                                    confPropDict)
               : s1 \in {replaceObject(s,
                           [e.d EXCEPT
                              !.obj = modObjProps(e.d.obj, regPropDict)])}})
        : c \in {extractProperties(e.d.obj, <<W_configuration>>)}})
    : e \in {extractObjectByNameAndType(s, r.name, "REGOBJ_REGEX",
               Len(W_object \o SP \o W_regulator))}})

\* one pass of the loop of commandCapacitors, c the entry of the capacitor
commandCapacitorsIter(s, c) ==
  TheOne({
    IF e.exc.type # "none" THEN [strModel |-> s, exc |-> e.exc]
    ELSE LET propDict == phaseDict(W_switch, c.phases)
                           \o controlItem(W_control, c.control)
         IN [strModel |-> replaceObject(s,
               [e.d EXCEPT !.obj = modObjProps(e.d.obj, propDict)]),
             exc |-> NoExc]
    : e \in {extractObjectByNameAndType(s, c.name, "CAP_REGEX",
               Len(W_object \o SP \o W_capacitor))}})

commandIter(op, s, entry) ==
  IF op = "commandRegulators" THEN commandRegulatorsIter(s, entry)
  ELSE commandCapacitorsIter(s, entry)

\* the loop over the entries after its first k passes, or up to the pass
\* that raised; before is the document at the start of the last pass made
RECURSIVE commandUpTo(_, _, _, _)
commandUpTo(op, s, entries, k) ==
  IF k = 0 THEN [strModel |-> s, exc |-> NoExc, before |-> s, passes |-> 0]
  ELSE TheOne({
         IF p.exc.type # "none" THEN p
         ELSE TheOne({[strModel |-> it.strModel, exc |-> it.exc,
                       before |-> p.strModel, passes |-> k]
                      : it \in {commandIter(op, p.strModel, entries[k])}})
         : p \in {commandUpTo(op, s, entries, k - 1)}})

commandRegulators(s, reg) == commandUpTo("commandRegulators", s, reg, Len(reg))

commandCapacitors(s, cap) == commandUpTo("commandCapacitors", s, cap, Len(cap))

\* object regulator {name r1;configuration c1;tap_A 5;}
RegR1 ==
  W_object \o SP \o W_regulator \o SP \o LB \o W_name \o SP \o N_r1 \o SEMI
    \o W_configuration \o SP \o N_c1 \o SEMI \o W_tap_A \o SP \o <<"5">>
    \o SEMI \o RB

\* object regulator {name r2;configuration c2;}
RegR2 ==
  W_object \o SP \o W_regulator \o SP \o LB \o W_name \o SP \o N_r2 \o SEMI
    \o W_configuration \o SP \o N_c2 \o SEMI \o RB

\* object regulator_configuration {name c1;tap_pos_A 5;}
ConfC1 ==
  W_object \o SP \o W_regulator_configuration \o SP \o LB \o W_name \o SP
    \o N_c1 \o SEMI \o W_tap_pos_ \o <<"A">> \o SP \o <<"5">> \o SEMI \o RB

\* object capacitor {name c2;switchA OPEN;}
CapC2 ==
  W_object \o SP \o W_capacitor \o SP \o LB \o W_name \o SP \o N_c2 \o SEMI
    \o W_switch \o <<"A">> \o SP \o V_OPEN \o SEMI \o RB

CmdItems == {RegR1, RegR2, ConfC1, CapC2, ItemB}

CmdDocs ==
  {Flatten(q) : q \in UNION {[1..n -> CmdItems] : n \in 1..MaxItems}}

Phases ==
  {<<[p |-> <<"A">>, newState |-> V_7, prevState |-> <<>>]>>,
   <<[p |-> <<"A">>, newState |-> <<>>, prevState |-> V_3]>>}

RegEntries ==
  {[name |-> n, phases |-> ph, Control |-> c] :
     n \in {N_r1, N_r2}, ph \in Phases, c \in {<<>>, V_MANUAL}}

CapEntries ==
  {[name |-> N_c2, phases |-> ph, control |-> c] :
     ph \in Phases, c \in {<<>>, V_MANUAL}}

\* the dictionaries of one or two entries, their keys distinct
EntryLists(E) ==
  {<<e>> : e \in E}
    \cup {q \in [1..2 -> E] : q[1].name # q[2].name}

CmdCall(op, entries, n, before, passes) ==
  [op |-> op, entries |-> entries, n |-> n, before |-> before,
   passes |-> passes]

InitCmd ==
  /\ strModel \in CmdDocs
  /\ pc = "idle"
  /\ call = CmdCall("none", <<>>, 0, strModel, 0)
  /\ d = NoDict
  /\ exc = NoExc
  /\ outDict = <<>>
  /\ pre = strModel

Command(op, entries) ==
  /\ pc \in {"idle", "returned"}
  /\ call.n < MaxCalls
  /\ \E r \in {commandUpTo(op, strModel, entries, Len(entries))} :
        /\ strModel' = r.strModel
        /\ exc' = r.exc
        /\ pc' = IF r.exc.type = "none" THEN "returned" ELSE "raised"
        /\ call' = CmdCall(op, entries, call.n + 1, r.before, r.passes)
  /\ pre' = strModel
  /\ UNCHANGED <<d, outDict>>

CommandRegulators(reg) == Command("commandRegulators", reg)

CommandCapacitors(cap) == Command("commandCapacitors", cap)

NextCmd ==
  \/ \E reg \in EntryLists(RegEntries) : CommandRegulators(reg)
  \/ \E cap \in EntryLists(CapEntries) : CommandCapacitors(cap)

SpecCmd == InitCmd /\ [][NextCmd]_vars

----------------------------------------------------------------------------
(* Claims on the command methods, under SpecCmd.                           *)

\* C21: a call of commandRegulators that raises leaves the document as it
\* was at the start of the pass that raised: the regulator whose
\* configuration object is not resolved has not received its tap values.
C21_AtomicOnError ==
  (pc = "raised" /\ call.op = "commandRegulators")
    => strModel = call.before

----------------------------------------------------------------------------
(* modGLM.findSwing and modGLM.meterSwing                                  *)

W_bustype == <<"b","u","s","t","y","p","e">>
W_SWING == <<"S","W","I","N","G">>
W_node == <<"n","o","d","e">>
W_meter == <<"m","e","t","e","r">>
W_substation == <<"s","u","b","s","t","a","t","i","o","n">>
W_load == <<"l","o","a","d">>
W_fuse == <<"f","u","s","e">>
W_from == <<"f","r","o","m">>
W_parent == <<"p","a","r","e","n","t">>
W_nominal_voltage ==
  <<"n","o","m","i","n","a","l","_","v","o","l","t","a","g","e">>
N_swing_meter == <<"s","w","i","n","g","_","m","e","t","e","r">>
N_n1 == <<"n","1">>
N_n2 == <<"n","2">>

\* SWING_REGEX, \bbustype\b(\s+)\bSWING\b, matched at offset i: the offset
\* after the match, or -1
SWING_REGEX(s, i) ==
  LET n == Len(s)
      a == i + Len(W_bustype)
      b == a + spaceRun(s, a, n)
  IN IF /\ atB(s, i, n)
        /\ litAt(s, i, W_bustype, n)
        /\ atB(s, a, n)
        /\ b > a
        /\ atB(s, b, n)
        /\ litAt(s, b, W_SWING, n)
        /\ atB(s, b + Len(W_SWING), n)
     THEN b + Len(W_SWING)
     ELSE -1

NODE_REGEX(s, pos, endpos) == objTypeMatch(W_node, s, pos, endpos)

METER_REGEX(s, pos, endpos) == objTypeMatch(W_meter, s, pos, endpos)

SUBSTATION_REGEX(s, pos, endpos) ==
  objTypeMatch(W_substation, s, pos, endpos)

\* FROM_REGEX.format(name), \bfrom\b(\s+)("?)<name>("?)(\s*);, matched at
\* offset i: the offset after the match, or -1
FROM_REGEX(name, s, i) ==
  LET n == Len(s)
      a == i + Len(W_from)
      b == a + spaceRun(s, a, n)
      c == b + quoteAt(s, b, n)
      e == c + Len(name)
      f == e + quoteAt(s, e, n)
      g == f + spaceRun(s, f, n)
  IN IF /\ atB(s, i, n)
        /\ litAt(s, i, W_from, n)
        /\ atB(s, a, n)
        /\ b > a
        /\ litAt(s, c, name, n)
        /\ g < n
        /\ s[g + 1] = ";"
     THEN g + 1
     ELSE -1

NoSwing == [name |-> <<>>, start |-> -1, end |-> -1, obj |-> <<>>]

swingRaise(type) == [exc |-> [type |-> type, arg |-> <<>>], d |-> NoSwing]

\* findSwing: the walk back from the match to "{" runs over negative
\* offsets, which index from the end of the text, before it leaves the text
findSwing(s) ==
  LET n == Len(s)
      M == {i \in 0..n : SWING_REGEX(s, i) # -1}
  IN IF M = {} THEN swingRaise("AttributeError")
     ELSE
     LET st == MinOf(M)
         en == SWING_REGEX(s, st)
         B == {k \in 0..(n - 1) : s[k + 1] = "{"}
         Bb == {k \in B : k <= st}
         C == {k \in en..(n - 1) : s[k + 1] = "}"}
     IN IF B = {} \/ C = {} THEN swingRaise("IndexError")
        ELSE
        LET sInd == IF Bb # {} THEN MaxOf(Bb) ELSE MaxOf(B) - n
            eInd == MinOf(C) + 1
            sName == extractProperties(PySlice(s, sInd, eInd + 1), <<W_name>>)
            O == {i \in 0..Max(sInd, 0) : OBJ_REGEX(s, i, sInd)}
        IN IF sName.exc.type # "none"
           THEN [exc |-> sName.exc, d |-> NoSwing]
           ELSE IF O = {} THEN swingRaise("UnboundLocalError")
           ELSE [exc |-> NoExc,
                 d |-> [name |-> sName.outDict[W_name].prop,
                        start |-> MaxOf(O), end |-> eInd,
                        obj |-> PySlice(s, MaxOf(O), eInd)]]

\* nodeMatch.span()[1] for a text that NODE_REGEX matches at offset 0
nodeMatchEnd(obj) ==
  Len(W_object) + spaceRun(obj, Len(W_object), Len(obj)) + Len(W_node)

\* the swing object with 'object node' replaced by 'object meter'
swingAsMeter(obj) ==
  PySlice(obj, 0, 0) \o W_object \o SP \o W_meter
    \o PyTail(obj, nodeMatchEnd(obj))

\* regExp.sub('from <meterName>;', s) from offset pos on
RECURSIVE subFrom(_, _, _, _)
subFrom(name, meterName, s, pos) ==
  LET M == {i \in pos..Len(s) : FROM_REGEX(name, s, i) # -1}
  IN IF M = {} THEN PyTail(s, pos)
     ELSE PySlice(s, pos, MinOf(M)) \o W_from \o SP \o meterName \o SEMI
            \o subFrom(name, meterName, s, FROM_REGEX(name, s, MinOf(M)))

\* addObject without objStr: the new object is put before or after strModel
addObjectAt(s, objType, properties, place) ==
  IF place = "beginning" THEN addObjectStr(objType, properties) \o s
  ELSE s \o NL \o addObjectStr(objType, properties)

\* the branch of meterSwing for a substation: a meter named swing_meter is
\* added and the lines from the substation are made to start at the meter
substationMeter(s, swing) ==
  LET props == extractProperties(swing.obj, <<W_phases, W_nominal_voltage>>)
  IN IF props.exc.type # "none"
     THEN [strModel |-> s, exc |-> props.exc, meterName |-> <<>>]
     ELSE LET propDict ==
                <<[prop |-> W_phases, value |-> props.outDict[W_phases].prop],
                  [prop |-> W_nominal_voltage,
                   value |-> props.outDict[W_nominal_voltage].prop],
                  [prop |-> W_parent, value |-> swing.name],
                  [prop |-> W_name, value |-> N_swing_meter]>>
          IN [strModel |->
                TheOne({subFrom(swing.name, N_swing_meter, s1, 0) :
                          s1 \in {addObjectAt(s, W_meter, propDict,
                                              "end")}}),
              exc |-> NoExc, meterName |-> N_swing_meter]

\* swing = self.findSwing() is computed once (sw), then the type is tested.
meterSwing(s) ==
  TheOne({
    LET swing == sw.d
        n == Len(swing.obj)
    IN IF sw.exc.type # "none"
       THEN [strModel |-> s, exc |-> sw.exc, meterName |-> <<>>]
       ELSE IF NODE_REGEX(swing.obj, 0, n)
       THEN [strModel |->
               replaceObject(s,
                             [swing EXCEPT !.obj = swingAsMeter(swing.obj)]),
             exc |-> NoExc, meterName |-> swing.name]
       ELSE IF SUBSTATION_REGEX(swing.obj, 0, n)
       THEN substationMeter(s, swing)
       ELSE IF METER_REGEX(swing.obj, 0, n)
       THEN [strModel |-> s, exc |-> NoExc, meterName |-> swing.name]
       ELSE [strModel |-> s,
             exc |-> [type |-> "UnexpectedSwingType", arg |-> <<>>],
             meterName |-> <<>>]
    : sw \in {findSwing(s)}})

swingObject(objType, name, tail) ==
  W_object \o SP \o objType \o SP \o LB \o W_name \o SP \o name \o SEMI
    \o W_bustype \o SP \o W_SWING \o SEMI \o tail \o RB

\* object node {name n1;bustype SWING;}
SwingNode == swingObject(W_node, N_n1, <<>>)

\* object meter {name n1;bustype SWING;}
SwingMeter == swingObject(W_meter, N_n1, <<>>)

\* object load {name n2;bustype SWING;}
SwingLoad == swingObject(W_load, N_n2, <<>>)

\* object substation {name n1;bustype SWING;phases A;nominal_voltage 7;}
SwingSubstation ==
  swingObject(W_substation, N_n1,
              W_phases \o SP \o <<"A">> \o SEMI \o W_nominal_voltage \o SP
                \o V_7 \o SEMI)

\* object substation {name n2;bustype SWING;}
SwingSubstationBare == swingObject(W_substation, N_n2, <<>>)

\* object  node {\nname n2;\nbustype SWING;\n}
SwingSpaced ==
  W_object \o SP \o SP \o W_node \o SP \o LB \o NL \o W_name \o SP \o N_n2
    \o SEMI \o NL \o W_bustype \o SP \o W_SWING \o SEMI \o NL \o RB

\* object node {name n1;object load {name n2;};bustype SWING;}
SwingNested ==
  W_object \o SP \o W_node \o SP \o LB \o W_name \o SP \o N_n1 \o SEMI
    \o W_object \o SP \o W_load \o SP \o LB \o W_name \o SP \o N_n2 \o SEMI
    \o RB \o SEMI \o W_bustype \o SP \o W_SWING \o SEMI \o RB

\* object node {group name r2;\nname n1;bustype SWING;}
SwingGroup ==
  W_object \o SP \o W_node \o SP \o LB \o W_group \o SP \o W_name \o SP
    \o N_r2 \o SEMI \o NL \o W_name \o SP \o N_n1 \o SEMI \o W_bustype \o SP
    \o W_SWING \o SEMI \o RB

\* object fuse {from n1;}
FuseFrom ==
  W_object \o SP \o W_fuse \o SP \o LB \o W_from \o SP \o N_n1 \o SEMI \o RB

\* object node {name n2;}
PlainNode ==
  W_object \o SP \o W_node \o SP \o LB \o W_name \o SP \o N_n2 \o SEMI \o RB

SwingItems ==
  {SwingNode, SwingMeter, SwingLoad, SwingSubstation, SwingSubstationBare,
   SwingSpaced, SwingNested, SwingGroup, FuseFrom, PlainNode}

SwingDocs ==
  {Flatten(q) : q \in UNION {[1..n -> SwingItems] : n \in 1..MaxItems}}

SwingCall(op, n, swing, meterName) ==
  [op |-> op, n |-> n, swing |-> swing, meterName |-> meterName]

InitSwing ==
  /\ strModel \in SwingDocs
  /\ pc = "idle"
  /\ call = SwingCall("none", 0, swingRaise("none"), <<>>)
  /\ d = NoDict
  /\ exc = NoExc
  /\ outDict = <<>>
  /\ pre = strModel

\* call.swing is what findSwing returned or raised in this call
MeterSwing ==
  /\ pc \in {"idle", "returned"}
  /\ call.n < MaxCalls
  /\ LET r == meterSwing(strModel)
     IN /\ strModel' = r.strModel
        /\ exc' = r.exc
        /\ pc' = IF r.exc.type = "none" THEN "returned" ELSE "raised"
        /\ call' = SwingCall("meterSwing", call.n + 1, findSwing(strModel),
                             r.meterName)
  /\ pre' = strModel
  /\ UNCHANGED <<d, outDict>>

NextSwing == MeterSwing

SpecSwing == InitSwing /\ [][NextSwing]_vars

----------------------------------------------------------------------------
(* Claims on meterSwing, under SpecSwing.                                  *)

SwingFound ==
  /\ pc \in {"returned", "raised"}
  /\ call.op = "meterSwing"
  /\ call.swing.exc.type = "none"

\* the type of the object found for the SWING bus, from its header
swingType ==
  LET obj == call.swing.d.obj
      n == Len(obj)
  IN IF NODE_REGEX(obj, 0, n) THEN "node"
     ELSE IF METER_REGEX(obj, 0, n) THEN "meter"
     ELSE IF SUBSTATION_REGEX(obj, 0, n) THEN "substation"
     ELSE "other"

\* the value of the first name statement of the object found
swingName ==
  LET obj == call.swing.d.obj
      K == {i \in propMatches(W_name, obj) : IsKeyAt(obj, i - Len(W_name))}
  IN IF K = {} THEN <<>>
     ELSE propEntry(obj, MinOf(K), propMatchEnd(W_name, obj, MinOf(K))).prop

\* C22: when the object found for the SWING bus is neither a node, a meter
\* nor a substation, meterSwing raises UnexpectedSwingType and the document
\* is unchanged; for a node the header is rewritten to 'object meter', the
\* text before the object and the text after the header are unchanged; for
\* a meter the document is unchanged; for both the name of the swing object
\* is returned.
C22_MeterSwing ==
  SwingFound =>
    LET h == call.swing.d.start
    IN /\ swingType = "other"
            => exc.type = "UnexpectedSwingType" /\ strModel = pre
       /\ swingType = "node"
            => /\ pc = "returned"
               /\ strModel =
                    PySlice(pre, 0, h) \o W_object \o SP \o W_meter
                      \o PyTail(pre, h + nodeMatchEnd(call.swing.d.obj))
               /\ call.meterName = swingName
       /\ swingType = "meter"
            => /\ pc = "returned"
               /\ strModel = pre
               /\ call.meterName = swingName

----------------------------------------------------------------------------
(* modGLM.recordTriplex and modGLM.addTriplexMeters                        *)

W_triplex_load == <<"t","r","i","p","l","e","x","_","l","o","a","d">>
W_triplex_ == <<"t","r","i","p","l","e","x","_">>
W_mysql_recorder ==
  <<"m","y","s","q","l",".","r","e","c","o","r","d","e","r">>
W_table == <<"t","a","b","l","e">>
W_property == <<"p","r","o","p","e","r","t","y">>
W_header_fieldnames ==
  <<"h","e","a","d","e","r","_","f","i","e","l","d","n","a","m","e","s">>
W_limit == <<"l","i","m","i","t">>
W_voltage_12 == <<"v","o","l","t","a","g","e","_","1","2">>
W__meter == <<"_","m","e","t","e","r">>
V_minus1 == <<"-","1">>
V_suffix == <<"s">>
DQ == <<"\"">>
N_t1 == <<"t","1">>
N_t2 == <<"t","2">>

TRIPLEX_LOAD_REGEX(s, pos, endpos) ==
  objTypeMatch(W_triplex_load, s, pos, endpos)

\* the k-th element of a set of offsets in increasing order
kth(S, k) == CHOOSE x \in S : Cardinality({y \in S : y < x}) = k - 1

\* the starts of the matches TRIPLEX_LOAD_REGEX.finditer(s) yields, in order
triplexMatches(s) ==
  LET S == {i \in 0..Len(s) : TRIPLEX_LOAD_REGEX(s, i, Len(s))}
  IN [k \in 1..Cardinality(S) |-> kth(S, k)]

\* addMySQLRecorder as recordTriplex calls it: one property, the default
\* header_fieldnames and limit, no options, mode or group
addMySQLRecorder(s, table, prop, interval, parent) ==
  s \o NL \o W_object \o SP \o W_mysql_recorder \o SP \o LB \o NL
    \o SP \o SP \o W_table \o SP \o DQ \o table \o DQ \o SEMI \o NL
    \o SP \o SP \o W_property \o SP \o DQ \o prop \o DQ \o SEMI \o NL
    \o SP \o SP \o W_interval \o SP \o interval \o SEMI \o NL
    \o SP \o SP \o W_header_fieldnames \o SP \o DQ \o W_name \o DQ
    \o SEMI \o NL
    \o SP \o SP \o W_limit \o SP \o V_minus1 \o SEMI \o NL
    \o (IF parent # <<>>
        THEN SP \o SP \o W_parent \o SP \o parent \o SEMI \o NL
        ELSE <<>>)
    \o RB

\* one pass of the loop of recordTriplex, m the start of the match
recordTriplexIter(s, m, suffix, interval) ==
  LET tObj == extractObject(s, m)
      n == extractProperties(tObj.obj, <<W_name>>)
  IN IF n.exc.type # "none"
     THEN [strModel |-> s, exc |-> n.exc, tObj |-> tObj]
     ELSE [strModel |-> addMySQLRecorder(s, W_triplex_ \o suffix,
                                         W_voltage_12, interval,
                                         n.outDict[W_name].prop),
           exc |-> NoExc, tObj |-> tObj]

\* one pass of the loop of addTriplexMeters, m the start of the match
addTriplexMetersIter(s, m) ==
  LET tObj == extractObject(s, m)
      n == extractProperties(tObj.obj,
                             <<W_name, W_phases, W_nominal_voltage>>)
  IN IF n.exc.type # "none"
     THEN [strModel |-> s, exc |-> n.exc, tObj |-> tObj]
     ELSE [strModel |->
             addObjectAt(s, W_triplex_meter,
               <<[prop |-> W_name,
                  value |-> n.outDict[W_name].prop \o W__meter],
                 [prop |-> W_parent, value |-> n.outDict[W_name].prop],
                 [prop |-> W_phases, value |-> n.outDict[W_phases].prop],
                 [prop |-> W_nominal_voltage,
                  value |-> n.outDict[W_nominal_voltage].prop]>>,
               "end"),
           exc |-> NoExc, tObj |-> tObj]

tripleLoad(name, tail) ==
  W_object \o SP \o W_triplex_load \o SP \o LB \o W_name \o SP \o name
    \o SEMI \o tail \o RB

\* phases A;nominal_voltage 7;
LoadProps ==
  W_phases \o SP \o <<"A">> \o SEMI \o W_nominal_voltage \o SP \o V_7 \o SEMI

\* object triplex_load {name t1;phases A;nominal_voltage 7;}
LoadT1 == tripleLoad(N_t1, LoadProps)

\* object triplex_load {name t2;}
LoadT2 == tripleLoad(N_t2, <<>>)

\* object triplex_load {name t1;phases A;nominal_voltage 7;object
\* triplex_load {name t2;phases A;nominal_voltage 7;};}
LoadNested ==
  tripleLoad(N_t1, LoadProps \o tripleLoad(N_t2, LoadProps) \o SEMI)

\* object triplex_load {phases A;nominal_voltage 7;
LoadOpen == W_object \o SP \o W_triplex_load \o SP \o LB \o LoadProps

TriplexItems == {LoadT1, LoadT2, LoadNested, LoadOpen, MeterA, NL}

TriplexDocs ==
  {Flatten(q) : q \in UNION {[1..n -> TriplexItems] : n \in 1..MaxItems}}

TriplexCall(op, suffix, interval, matches) ==
  [op |-> op, suffix |-> suffix, interval |-> interval, matches |-> matches,
   k |-> 0, doc0 |-> strModel, tObj |-> NoDict]

----------------------------------------------------------------------------
(* The state machine of the triplex loops: a call of recordTriplex or of   *)
(* addTriplexMeters takes the matches of the document, then each pass of   *)
(* its for loop handles the next match.  call.k is the number of passes    *)
(* made, call.tObj the object the last pass extracted, pre the document    *)
(* before the last pass.                                                   *)

InitTriplex ==
  /\ strModel \in TriplexDocs
  /\ pc = "idle"
  /\ call = TriplexCall("none", <<>>, <<>>, <<>>)
  /\ d = NoDict
  /\ exc = NoExc
  /\ outDict = <<>>
  /\ pre = strModel

RecordTriplex(suffix, interval) ==
  /\ pc = "idle"
  /\ call' = TriplexCall("recordTriplex", suffix, interval,
                         triplexMatches(strModel))
  /\ pc' = "loop"
  /\ UNCHANGED <<strModel, d, exc, outDict, pre>>

AddTriplexMeters ==
  /\ pc = "idle"
  /\ call' = TriplexCall("addTriplexMeters", <<>>, <<>>,
                         triplexMatches(strModel))
  /\ pc' = "loop"
  /\ UNCHANGED <<strModel, d, exc, outDict, pre>>

triplexPass ==
  IF call.op = "recordTriplex"
  THEN recordTriplexIter(strModel, call.matches[call.k + 1], call.suffix,
                         call.interval)
  ELSE addTriplexMetersIter(strModel, call.matches[call.k + 1])

TriplexPass ==
  /\ pc = "loop"
  /\ call.op \in {"recordTriplex", "addTriplexMeters"}
  /\ call.k < Len(call.matches)
  /\ strModel' = triplexPass.strModel
  /\ exc' = triplexPass.exc
  /\ pc' = IF triplexPass.exc.type = "none" THEN "loop" ELSE "raised"
  /\ call' = [call EXCEPT !.k = call.k + 1, !.tObj = triplexPass.tObj]
  /\ pre' = strModel
  /\ UNCHANGED <<d, outDict>>

\* the iterator is exhausted
TriplexReturn ==
  /\ pc = "loop"
  /\ call.op \in {"recordTriplex", "addTriplexMeters"}
  /\ call.k = Len(call.matches)
  /\ pc' = "returned"
  /\ UNCHANGED <<strModel, call, d, exc, outDict, pre>>

NextTriplex ==
  \/ RecordTriplex(V_suffix, V_60)
  \/ AddTriplexMeters
  \/ TriplexPass
  \/ TriplexReturn

SpecTriplex == InitTriplex /\ [][NextTriplex]_vars

----------------------------------------------------------------------------
(* Claims on the triplex loops, under SpecTriplex.                         *)

TriplexRunning ==
  /\ pc \in {"loop", "returned", "raised"}
  /\ call.op \in {"recordTriplex", "addTriplexMeters"}

\* the text the passes made so far have put after the original document
appended == PyTail(strModel, Len(call.doc0))

objectHeaders(s) == {i \in 0..Len(s) : OBJ_REGEX(s, i, Len(s))}

\* C23: the matches are taken on the document as it was before the loop
\* and every pass only appends: the original document is a prefix of
\* strModel, the object a pass extracts at the offset of its match is the
\* object the original document has at that offset, the appended text holds
\* no triplex_load, and on return it holds one object per match.
C23_StaleOffsetsValid ==
  TriplexRunning =>
    /\ PySlice(strModel, 0, Len(call.doc0)) = call.doc0
    /\ triplexMatches(strModel) = call.matches
    /\ call.k >= 1
         => call.tObj = extractObject(call.doc0, call.matches[call.k])
    /\ pc = "returned"
         => Cardinality(objectHeaders(appended)) = Len(call.matches)

----------------------------------------------------------------------------
(* modGLM.switchControl                                                    *)

W_ontrol == <<"o","n","t","r","o","l">>
V_A == <<"A">>
V_B == <<"B">>

\* one letter of (m|M)(a|A)(n|N)(u|U)(a|A)(l|L)
manualLetters ==
  <<{"m","M"}, {"a","A"}, {"n","N"}, {"u","U"}, {"a","A"}, {"l","L"}>>

\* CONTROL_REGEX matched at offset i: the offset after the match, or -1.
\* The lookbehind reads the eight characters before i: (c|C)ontrol(\s)
CONTROL_REGEX(s, i) ==
  LET n == Len(s)
      a == i + spaceRun(s, i, n)
      b == a + 6 + spaceRun(s, a + 6, n)
      c == b + 1 + spaceRun(s, b + 1, n)
  IN IF /\ i >= 8
        /\ s[i - 7] \in {"c", "C"}
        /\ litAt(s, i - 7, W_ontrol, n)
        /\ IsSpace(s[i])
        /\ a + 6 <= n
        /\ \A k \in 1..6 : s[a + k] \in manualLetters[k]
        /\ b < n
        /\ s[b + 1] = ";"
        /\ litAt(s, c, COMMENT, n)
     THEN c + 2
     ELSE -1

\* CONTROL_REGEX.search(s, pos): the start of the leftmost match at or
\* after pos, -1 for None
controlSearch(s, pos) ==
  LET M == {i \in Max(pos, 0)..Len(s) : CONTROL_REGEX(s, i) # -1}
  IN IF M = {} THEN -1 ELSE MinOf(M)

\* COMMENT_REGEX.search(s, pos) is not None: (\S+); matches at or after pos
commentSearch(s, pos) ==
  \E p \in Max(pos, 0)..(Len(s) - 2) : ~IsSpace(s[p + 1]) /\ s[p + 2] = ";"

\* one pass of the while loop, m the start of the match: the document and
\* the next match
switchControlIter(s, m) ==
  LET sInd == m
      eInd == CONTROL_REGEX(s, m)
      new == IF commentSearch(s, eInd)
             THEN PySlice(s, 0, sInd) \o PyTail(s, eInd)
             ELSE s
  IN [strModel |-> new, m |-> controlSearch(new, eInd),
      sInd |-> sInd, eInd |-> eInd]

\* Control MANUAL; //A;
CtlA ==
  <<"C">> \o W_ontrol \o SP \o V_MANUAL \o SEMI \o SP \o COMMENT \o V_A
    \o SEMI

\* control manual;//B;
CtlB ==
  W_control \o SP \o <<"m","a","n","u","a","l">> \o SEMI \o COMMENT \o V_B
    \o SEMI

\* Control   MANUAL  ;  // A;
CtlWide ==
  <<"C">> \o W_ontrol \o SP \o SP \o SP \o V_MANUAL \o SP \o SP \o SEMI
    \o SP \o SP \o COMMENT \o SP \o V_A \o SEMI

\* Control MANUAL; //
CtlNoOption == <<"C">> \o W_ontrol \o SP \o V_MANUAL \o SEMI \o SP \o COMMENT

\* Control A;
CtlSet == <<"C">> \o W_ontrol \o SP \o V_A \o SEMI

ControlItems == {CtlA, CtlB, CtlWide, CtlNoOption, CtlSet, NL}

MaxLines == 3

ControlDocs ==
  {Flatten(q) : q \in UNION {[1..n -> ControlItems] : n \in 1..MaxLines}}

ControlCall(op, m) ==
  [op |-> op, m |-> m, iters |-> 0, sInd |-> -1, eInd |-> -1,
   doc0 |-> strModel]

----------------------------------------------------------------------------
(* The state machine of switchControl: the call searches the first match,  *)
(* then each pass of the while loop handles the match call.m and searches  *)
(* the next one.  pre is the document before the last pass.                *)

InitControl ==
  /\ strModel \in ControlDocs
  /\ pc = "idle"
  /\ call = ControlCall("none", -1)
  /\ d = NoDict
  /\ exc = NoExc
  /\ outDict = <<>>
  /\ pre = strModel

SwitchControl ==
  /\ pc = "idle"
  /\ call' = ControlCall("switchControl", controlSearch(strModel, 0))
  /\ pc' = "loop"
  /\ UNCHANGED <<strModel, d, exc, outDict, pre>>

controlPass == switchControlIter(strModel, call.m)

ControlPass ==
  /\ pc = "loop"
  /\ call.op = "switchControl"
  /\ call.m # -1
  /\ strModel' = controlPass.strModel
  /\ call' = [call EXCEPT !.m = controlPass.m, !.iters = call.iters + 1,
                          !.sInd = controlPass.sInd,
                          !.eInd = controlPass.eInd]
  /\ pre' = strModel
  /\ UNCHANGED <<pc, d, exc, outDict>>

\* while m: ends with m None
ControlReturn ==
  /\ pc = "loop"
  /\ call.op = "switchControl"
  /\ call.m = -1
  /\ pc' = "returned"
  /\ UNCHANGED <<strModel, call, d, exc, outDict, pre>>

NextControl == SwitchControl \/ ControlPass \/ ControlReturn

SpecControl == InitControl /\ [][NextControl]_vars

----------------------------------------------------------------------------
(* Claims on switchControl, under SpecControl.                             *)

\* a commented option stands at offset i: blanks, then a word and ";" on
\* the same line
optionAt(s, i) ==
  \E j \in i..Len(s), k \in i..Len(s) :
    /\ j < k
    /\ k < Len(s)
    /\ \A q \in (i + 1)..j : s[q] \in {" ", "\t"}
    /\ \A q \in (j + 1)..k : ~IsSpace(s[q]) /\ s[q] # ";"
    /\ s[k + 1] = ";"

\* the offsets at which 'MANUAL; //' stands after 'Control ' and before a
\* commented option
manualOptions(s) ==
  {i \in 0..Len(s) :
     CONTROL_REGEX(s, i) # -1 /\ optionAt(s, CONTROL_REGEX(s, i))}

\* C24: when switchControl has returned, no 'MANUAL; //' that is preceded
\* by 'Control ' and followed by a commented option is left in the
\* document.
C24_NoManualLeft ==
  (pc = "returned" /\ call.op = "switchControl") => manualOptions(strModel) = {}

----------------------------------------------------------------------------
(* modGLM.removeObjectsByType                                              *)

\* exp.search(s): the start of the leftmost match of
\* \bobject\b(\s+)\b<t>\b, -1 for None
typeSearch(t, s) ==
  LET M == {i \in 0..Len(s) : objTypeMatch(t, s, i, Len(s))}
  IN IF M = {} THEN -1 ELSE MinOf(M)

\* self.strModel[obj['end']] == ';': the read raises IndexError at the end
\* of the text; end is the end of the range to remove
semiAfter(s, end) ==
  IF end >= Len(s)
  THEN [exc |-> [type |-> "IndexError", arg |-> <<>>], end |-> end]
  ELSE [exc |-> NoExc, end |-> IF s[end + 1] = ";" THEN end + 1 ELSE end]

\* one pass of the while loop, m the start of the match
removeIter(s, m) ==
  LET obj == extractObject(s, m)
      sa == semiAfter(s, obj.end)
  IN IF sa.exc.type # "none"
     THEN [strModel |-> s, exc |-> sa.exc, obj |-> obj, end |-> obj.end]
     ELSE [strModel |-> replaceObject(s, [start |-> obj.start,
                                          end |-> sa.end, obj |-> <<>>]),
           exc |-> NoExc, obj |-> obj, end |-> sa.end]

\* the while loop for one type
RECURSIVE removeType(_, _)
removeType(s, t) ==
  IF typeSearch(t, s) = -1 THEN [strModel |-> s, exc |-> NoExc]
  ELSE LET it == removeIter(s, typeSearch(t, s))
       IN IF it.exc.type # "none"
          THEN [strModel |-> it.strModel, exc |-> it.exc]
          ELSE removeType(it.strModel, t)

\* the loop over typeList from its k-th type on
RECURSIVE removeObjectsByTypeFrom(_, _, _)
removeObjectsByTypeFrom(s, typeList, k) ==
  IF k > Len(typeList) THEN [strModel |-> s, exc |-> NoExc]
  ELSE LET r == removeType(s, typeList[k])
       IN IF r.exc.type # "none" THEN r
          ELSE removeObjectsByTypeFrom(r.strModel, typeList, k + 1)

removeObjectsByType(s, typeList) == removeObjectsByTypeFrom(s, typeList, 1)

\* the index of the first type from the k-th on that has a match in s, or
\* Len(typeList) + 1
RECURSIVE nextType(_, _, _)
nextType(s, typeList, k) ==
  IF k > Len(typeList) \/ typeSearch(typeList[k], s) # -1 THEN k
  ELSE nextType(s, typeList, k + 1)

\* object regulator {name r1;};
RegSemi ==
  W_object \o SP \o W_regulator \o SP \o LB \o W_name \o SP \o N_r1 \o SEMI
    \o RB \o SEMI

\* object capacitor {name c2;}\n
CapLine ==
  W_object \o SP \o W_capacitor \o SP \o LB \o W_name \o SP \o N_c2 \o SEMI
    \o RB \o NL

\* a comment line that ends with the word object: // object\n
CommentObject == COMMENT \o SP \o W_object \o NL

\* regulator taps;\n
RegText ==
  W_regulator \o SP \o <<"t","a","p","s">> \o SEMI \o NL

RemoveItems == {ItemB, RegSemi, CapLine, ItemD, CommentObject, RegText, NL}

MaxParts == 3

RemoveDocs ==
  {Flatten(q) : q \in UNION {[1..n -> RemoveItems] : n \in 1..MaxParts}}

TypeLists ==
  {<<W_regulator>>, <<W_capacitor>>, <<W_regulator, W_capacitor>>,
   <<W_capacitor, W_regulator>>}

RemoveCall(typeList, k) ==
  [op |-> "removeObjectsByType", typeList |-> typeList, k |-> k,
   iters |-> 0, obj |-> NoDict, end |-> -1, doc0 |-> strModel]

----------------------------------------------------------------------------
(* The state machine of removeObjectsByType: the call goes to the first    *)
(* type of typeList that has a match, each pass of the while loop removes  *)
(* the leftmost object of the type call.typeList[call.k] and goes on to    *)
(* the next type when none is left.  call.obj is the object the last pass  *)
(* extracted, call.end the end of the range it removed, pre the document   *)
(* before the last pass.                                                   *)

InitRemove ==
  /\ strModel \in RemoveDocs
  /\ pc = "idle"
  /\ call = [op |-> "none", typeList |-> <<>>, k |-> 1, iters |-> 0,
             obj |-> NoDict, end |-> -1, doc0 |-> strModel]
  /\ d = NoDict
  /\ exc = NoExc
  /\ outDict = <<>>
  /\ pre = strModel

RemoveObjectsByType(typeList) ==
  /\ pc = "idle"
  /\ call' = RemoveCall(typeList, nextType(strModel, typeList, 1))
  /\ pc' = "loop"
  /\ UNCHANGED <<strModel, d, exc, outDict, pre>>

removePass ==
  removeIter(strModel, typeSearch(call.typeList[call.k], strModel))

RemovePass ==
  /\ pc = "loop"
  /\ call.op = "removeObjectsByType"
  /\ call.k <= Len(call.typeList)
  /\ strModel' = removePass.strModel
  /\ exc' = removePass.exc
  /\ pc' = IF removePass.exc.type = "none" THEN "loop" ELSE "raised"
  /\ call' = [call EXCEPT !.k = nextType(removePass.strModel, call.typeList,
                                         call.k),
                          !.iters = call.iters + 1,
                          !.obj = removePass.obj,
                          !.end = removePass.end]
  /\ pre' = strModel
  /\ UNCHANGED <<d, outDict>>

\* the loop over typeList is over
RemoveReturn ==
  /\ pc = "loop"
  /\ call.op = "removeObjectsByType"
  /\ call.k > Len(call.typeList)
  /\ pc' = "returned"
  /\ UNCHANGED <<strModel, call, d, exc, outDict, pre>>

NextRemove ==
  \/ \E typeList \in TypeLists : RemoveObjectsByType(typeList)
  \/ RemovePass
  \/ RemoveReturn

SpecRemove == InitRemove /\ [][NextRemove]_vars

----------------------------------------------------------------------------
(* Claims on removeObjectsByType, under SpecRemove.                        *)

RemoveRunning ==
  /\ pc \in {"loop", "returned", "raised"}
  /\ call.op = "removeObjectsByType"

\* C25: after removeObjectsByType has returned the document has no match
\* of 'object <t>' for any t of typeList; each pass removes exactly the
\* object extracted at a match and the ";" that directly follows it, if
\* any, and leaves the text before and after that range as it was; each
\* pass makes the document shorter.
C25_AllRemoved ==
  RemoveRunning =>
    /\ pc = "returned"
         => \A k \in 1..Len(call.typeList) :
              typeSearch(call.typeList[k], strModel) = -1
    /\ (call.iters >= 1 /\ pc # "raised")
         => /\ \E k \in 1..Len(call.typeList) :
                 objTypeMatch(call.typeList[k], pre, call.obj.start, Len(pre))
            /\ call.obj = extractObject(pre, call.obj.start)
            /\ call.end = IF pre[call.obj.end + 1] = ";"
                          THEN call.obj.end + 1 ELSE call.obj.end
            /\ strModel = PySlice(pre, 0, call.obj.start)
                            \o PyTail(pre, call.end)
            /\ Len(strModel) < Len(pre)

\* C29: no pass reads strModel outside the buffer: when the closing brace
\* of the object to remove is the last character of the document, the pass
\* does not raise and removes the object.
C29_NoReadOutside ==
  (/\ RemoveRunning
   /\ call.iters >= 1
   /\ call.obj.end = Len(pre)
   /\ pre[Len(pre)] = "}")
  => /\ pc # "raised"
     /\ strModel = PySlice(pre, 0, call.obj.start)

----------------------------------------------------------------------------
(* modGLM.removeTape                                                       *)

W_tape == <<"t","a","p","e">>

\* \bmodule\b(\s+)\btape\b(\s*) matched at offset i: the offset after the
\* match, or -1
tapeHead(s, i) ==
  LET n == Len(s)
      a == i + Len(W_module)
      b == a + spaceRun(s, a, n)
      c == b + Len(W_tape)
  IN IF /\ atB(s, i, n)
        /\ litAt(s, i, W_module, n)
        /\ atB(s, a, n)
        /\ b > a
        /\ atB(s, b, n)
        /\ litAt(s, b, W_tape, n)
        /\ atB(s, c, n)
     THEN c + spaceRun(s, c, n)
     ELSE -1

\* TAPE_REGEX1, \bmodule\b(\s+)\btape\b(\s*);, matched at offset i: the
\* offset after the match, or -1
TAPE_REGEX1(s, i) ==
  LET e == tapeHead(s, i)
  IN IF e # -1 /\ e < Len(s) /\ s[e + 1] = ";" THEN e + 1 ELSE -1

\* TAPE_REGEX2, \bmodule\b(\s+)\btape\b(\s*)(?={), matched at offset i
TAPE_REGEX2(s, i) ==
  LET e == tapeHead(s, i)
  IN IF e # -1 /\ e < Len(s) /\ s[e + 1] = "{" THEN e ELSE -1

removeTape(s) ==
  LET M1 == {i \in 0..Len(s) : TAPE_REGEX1(s, i) # -1}
      M2 == {i \in 0..Len(s) : TAPE_REGEX2(s, i) # -1}
  IN IF M1 # {}
     THEN PySlice(s, 0, MinOf(M1)) \o PyTail(s, TAPE_REGEX1(s, MinOf(M1)) + 1)
     ELSE IF M2 # {}
     THEN LET tapeObj == extractObject(s, MinOf(M2))
          IN PySlice(s, 0, tapeObj.start) \o PyTail(s, tapeObj.end + 1)
     ELSE s

\* module tape;
TapeSimple == W_module \o SP \o W_tape \o SEMI

\* module tape;\n
TapeLine == TapeSimple \o NL

\* module tape {\n}
TapeBlock == W_module \o SP \o W_tape \o SP \o LB \o NL \o RB

\* module tape {\n};\n
TapeBlockSemi == TapeBlock \o SEMI \o NL

TapeItems ==
  {TapeSimple, TapeLine, TapeBlock, TapeBlockSemi, PfBare, ItemB, NL}

TapeDocs ==
  {Flatten(q) : q \in UNION {[1..n -> TapeItems] : n \in 1..MaxItems}}

TapeCall(op, n) == [op |-> op, n |-> n, doc0 |-> strModel]

InitTape ==
  /\ strModel \in TapeDocs
  /\ pc = "idle"
  /\ call = TapeCall("none", 0)
  /\ d = NoDict
  /\ exc = NoExc
  /\ outDict = <<>>
  /\ pre = strModel

RemoveTape ==
  /\ pc \in {"idle", "returned"}
  /\ call.n < MaxCalls
  /\ strModel' = removeTape(strModel)
  /\ pc' = "returned"
  /\ call' = [call EXCEPT !.op = "removeTape", !.n = call.n + 1]
  /\ pre' = strModel
  /\ UNCHANGED <<d, exc, outDict>>

NextTape == RemoveTape

SpecTape == InitTape /\ [][NextTape]_vars

----------------------------------------------------------------------------
(* Claims on removeTape, under SpecTape.                                   *)

\* the span of the first tape module declaration of s: 'module tape;', or
\* 'module tape {' up to the brace that closes it; <<-1, -1>> when s has
\* none
tapeDeclaration(s) ==
  LET M1 == {i \in 0..Len(s) : TAPE_REGEX1(s, i) # -1}
      M2 == {i \in 0..Len(s) : TAPE_REGEX2(s, i) # -1}
  IN IF M1 # {} THEN <<MinOf(M1), TAPE_REGEX1(s, MinOf(M1))>>
     ELSE IF M2 # {}
     THEN <<MinOf(M2),
            MinOf(CloseOffsets(s, MinOf(M2)) \cup {Len(s) - 1}) + 1>>
     ELSE <<-1, -1>>

\* C30: removeTape removes the tape module declaration and, after it, at
\* most whitespace or a ";" that directly follows; the text before the
\* declaration and every other character after it are kept; without a
\* tape module the document is unchanged.
C30_OnlyTheDeclaration ==
  (pc = "returned" /\ call.op = "removeTape")
  => LET span == tapeDeclaration(pre)
     IN IF span[1] = -1 THEN strModel = pre
        ELSE \E e \in span[2]..Len(pre) :
               /\ strModel = PySlice(pre, 0, span[1]) \o PyTail(pre, e)
               /\ \A q \in (span[2] + 1)..e :
                    IsSpace(pre[q]) \/ (pre[q] = ";" /\ q = span[2] + 1)

----------------------------------------------------------------------------
(* Sequences of editing calls on one document: each action is one call of  *)
(* an editing method, with the exception it raises, if any, and the        *)
(* document it leaves.  call.doc0 is the document before the first call,   *)
(* pre the document before the last call.                                  *)

\* object regulator {module tape;}
TapeInside ==
  W_object \o SP \o W_regulator \o SP \o LB \o TapeSimple \o RB

EditItems ==
  {RegR1, ConfC1, CapC2, ClockBlock, PfBare, TapeLine, TapeInside, SwingNode,
   NL}

EditDocs ==
  {Flatten(q) : q \in UNION {[1..n -> EditItems] : n \in 1..MaxItems}}

EditRegEntry ==
  [name |-> N_r1,
   phases |-> <<[p |-> <<"A">>, newState |-> V_7, prevState |-> <<>>]>>,
   Control |-> V_MANUAL]

EditCapEntry ==
  [name |-> N_c2,
   phases |-> <<[p |-> <<"A">>, newState |-> V_OPEN, prevState |-> <<>>]>>,
   control |-> <<>>]

InitEdit ==
  /\ strModel \in EditDocs
  /\ pc = "idle"
  /\ call = [op |-> "none", n |-> 0, doc0 |-> strModel]
  /\ d = NoDict
  /\ exc = NoExc
  /\ outDict = <<>>
  /\ pre = strModel

\* the call op has left the document s and raised e (NoExc for a return)
Edit(op, s, e) ==
  /\ pc \in {"idle", "returned", "raised"}
  /\ call.n < MaxCalls
  /\ strModel' = s
  /\ exc' = e
  /\ pc' = IF e.type = "none" THEN "returned" ELSE "raised"
  /\ call' = [call EXCEPT !.op = op, !.n = call.n + 1]
  /\ pre' = strModel
  /\ UNCHANGED <<d, outDict>>

EditCommandRegulators ==
  \E r \in {commandRegulators(strModel, <<EditRegEntry>>)} :
    Edit("commandRegulators", r.strModel, r.exc)

EditCommandCapacitors ==
  \E r \in {commandCapacitors(strModel, <<EditCapEntry>>)} :
    Edit("commandCapacitors", r.strModel, r.exc)

EditUpdateClock ==
  \E r \in {updateClock(strModel, V_start, V_stop, V_PST)} :
    Edit("updateClock", r.strModel, NoExc)

EditUpdatePowerflow ==
  \E r \in {updatePowerflow(strModel, V_NR, V_TRUE, <<>>)} :
    Edit("updatePowerflow", r.strModel, NoExc)

EditAddObject(place) ==
  \E s \in {addObjectAt(strModel, W_meter,
                         <<[prop |-> W_name, value |-> N_n2]>>, place)} :
    Edit("addObject", s, NoExc)

EditMeterSwing ==
  \E r \in {meterSwing(strModel)} : Edit("meterSwing", r.strModel, r.exc)

EditRemoveObjectsByType ==
  \E r \in {removeObjectsByType(strModel, <<W_regulator>>)} :
    Edit("removeObjectsByType", r.strModel, r.exc)

EditRemoveTape ==
  \E s \in {removeTape(strModel)} : Edit("removeTape", s, NoExc)

NextEdit ==
  \/ EditCommandRegulators
  \/ EditCommandCapacitors
  \/ EditUpdateClock
  \/ EditUpdatePowerflow
  \/ \E place \in {"beginning", "end"} : EditAddObject(place)
  \/ EditMeterSwing
  \/ EditRemoveObjectsByType
  \/ EditRemoveTape

SpecEdit == InitEdit /\ [][NextEdit]_vars

----------------------------------------------------------------------------
(* Claims on sequences of editing calls, under SpecEdit.                   *)

\* the brace depth of s is never negative and ends at 0
WellBraced(s) ==
  /\ \A k \in 0..Len(s) : Depth(s, k) >= 0
  /\ Depth(s, Len(s)) = 0

\* C28: when the document before the first call is well braced (its brace
\* depth is never negative and ends at 0), the document after every
\* sequence of editing calls is well braced.
C28_BraceBalance ==
  (call.op # "none" /\ WellBraced(call.doc0)) => WellBraced(strModel)

(***************************************************************************)
(* db.getCnxnAndCursor (src/pyvvo/app/db.py): the retry loop around the    *)
(* connection pool.  In this specification d is the state of self.cnxnPool *)
(* (the number of connections in its queue), call is the frame of the      *)
(* running method with the counts of what it has done so far, and outDict  *)
(* is the pair the method returns.  get_connection does not block: with an *)
(* empty queue it raises PoolError, with a connection at hand it returns   *)
(* it or, when the reconnect fails, puts it back and raises an             *)
(* InterfaceError, which the except clause does not catch.  Other threads  *)
(* take connections from the same pool and give them back.                 *)
(***************************************************************************)
MaxAttempts == 3

PoolSize == 2

Delays == {0 - 1, 0, 1}

Attempts == 0..MaxAttempts

\* if itCount >= attempts: raise err
giveUp_Late(itCount, attempts) == itCount > attempts

giveUp(itCount, attempts) == itCount >= attempts

PoolError == [type |-> "PoolError", arg |-> <<>>]

InterfaceError == [type |-> "InterfaceError", arg |-> <<>>]

ValueError == [type |-> "ValueError", arg |-> <<>>]

DbCall(op, attempts, delay) ==
  [op |-> op, attempts |-> attempts, delay |-> delay, itCount |-> 1,
   calls |-> 0, fails |-> 0, sleeps |-> 0, last |-> "none"]

InitDb ==
  /\ strModel = <<>>
  /\ pc = "idle"
  /\ call = DbCall("none", 1, 0)
  /\ d \in [free : 0..PoolSize]
  /\ exc = NoExc
  /\ outDict = <<>>
  /\ pre = <<>>

\* The call: itCount = 1 and the loop is entered.
GetCnxnAndCursor(attempts, delay) ==
  /\ pc \in {"idle", "raised"}
  /\ pc' = "try"
  /\ call' = DbCall("getCnxnAndCursor", attempts, delay)
  /\ exc' = NoExc
  /\ outDict' = <<>>
  /\ UNCHANGED <<strModel, d, pre>>

\* cnxn = self.cnxnPool.get_connection() returned a connection: break.
GetConnectionOk ==
  /\ pc = "try"
  /\ d.free > 0
  /\ d' = [d EXCEPT !.free = d.free - 1]
  /\ call' = [call EXCEPT !.calls = call.calls + 1, !.last = "ok"]
  /\ pc' = "cursor"
  /\ UNCHANGED <<strModel, exc, outDict, pre>>

\* get_connection raised an error that is no PoolError: it propagates.
GetConnectionError ==
  /\ pc = "try"
  /\ d.free > 0
  /\ call' = [call EXCEPT !.calls = call.calls + 1,
                          !.last = "InterfaceError"]
  /\ exc' = InterfaceError
  /\ pc' = "raised"
  /\ UNCHANGED <<strModel, d, outDict, pre>>

\* get_connection raised PoolError: raise it or count and go to sleep.
GetConnectionPoolError ==
  /\ pc = "try"
  /\ d.free = 0
  /\ IF giveUp(call.itCount, call.attempts)
       THEN /\ call' = [call EXCEPT !.calls = call.calls + 1,
                                    !.fails = call.fails + 1,
                                    !.last = "PoolError"]
            /\ exc' = PoolError
            /\ pc' = "raised"
       ELSE /\ call' = [call EXCEPT !.calls = call.calls + 1,
                                    !.fails = call.fails + 1,
                                    !.last = "PoolError",
                                    !.itCount = call.itCount + 1]
            /\ exc' = exc
            /\ pc' = "sleep"
  /\ UNCHANGED <<strModel, d, outDict, pre>>

\* time.sleep(delay): a negative delay is a ValueError.
Sleep ==
  /\ pc = "sleep"
  /\ IF call.delay < 0
       THEN /\ exc' = ValueError
            /\ pc' = "raised"
            /\ call' = call
       ELSE /\ exc' = exc
            /\ pc' = "try"
            /\ call' = [call EXCEPT !.sleeps = call.sleeps + 1]
  /\ UNCHANGED <<strModel, d, outDict, pre>>

\* cursor = cnxn.cursor(**cursorOptions); return cnxn, cursor
Cursor ==
  /\ pc = "cursor"
  /\ outDict' = [cnxn |-> TRUE, cursor |-> TRUE]
  /\ pc' = "returned"
  /\ UNCHANGED <<strModel, call, d, exc, pre>>

\* The caller's finally clause: the connection goes back to the pool.
CloseCnxnAndCursor ==
  /\ pc = "returned"
  /\ d' = [d EXCEPT !.free = d.free + 1]
  /\ outDict' = <<>>
  /\ pc' = "idle"
  /\ UNCHANGED <<strModel, call, exc, pre>>

\* Another thread takes a connection from the pool.
OtherGet ==
  /\ d.free > 0
  /\ d' = [d EXCEPT !.free = d.free - 1]
  /\ UNCHANGED <<strModel, pc, call, exc, outDict, pre>>

\* Another thread gives a connection back.
OtherClose ==
  /\ d.free + (IF pc \in {"cursor", "returned"} THEN 1 ELSE 0) < PoolSize
  /\ d' = [d EXCEPT !.free = d.free + 1]
  /\ UNCHANGED <<strModel, pc, call, exc, outDict, pre>>

NextDb ==
  \/ \E attempts \in Attempts, delay \in Delays :
       GetCnxnAndCursor(attempts, delay)
  \/ GetConnectionOk
  \/ GetConnectionError
  \/ GetConnectionPoolError
  \/ Sleep
  \/ Cursor
  \/ CloseCnxnAndCursor
  \/ OtherGet
  \/ OtherClose

SpecDb == InitDb /\ [][NextDb]_vars

\* The thread that runs the method keeps running: no statement of the method
\* blocks (get_connection does not wait, sleep returns after the delay).
DbStep ==
  GetConnectionOk \/ GetConnectionError \/ GetConnectionPoolError
    \/ Sleep \/ Cursor

SpecDbLive == SpecDb /\ WF_vars(DbStep)

DbRunning == pc \in {"try", "sleep", "cursor"}

DbDone == pc \in {"returned", "raised"}

C26_Counts ==
  call.op = "getCnxnAndCursor" =>
    /\ call.calls <= Max(1, call.attempts)
    /\ call.calls = call.fails + (IF call.last \in {"ok", "InterfaceError"}
                                    THEN 1 ELSE 0)
    /\ call.sleeps <= call.fails
    /\ pc = "sleep" => call.last = "PoolError"
    /\ pc \in {"cursor", "returned"} => call.last = "ok"
    /\ (pc = "raised" /\ exc = PoolError) =>
         /\ call.fails = Max(1, call.attempts)
         /\ call.calls = call.fails
    /\ (pc = "raised" /\ exc = ValueError) =>
         /\ call.delay < 0
         /\ call.last = "PoolError"

MaxRuns == 3

pathsep == <<":">>

EnvUnset == [set |-> FALSE, v |-> <<>>]

EnvSet(v) == [set |-> TRUE, v |-> v]

\* Python's None for the arguments DIR and LD_LIBRARY_PATH.
ArgNone == [given |-> FALSE, v |-> <<>>]

Arg(v) == [given |-> TRUE, v |-> v]

W_PATH == <<"P","A","T","H">>

KeyError(key) == [type |-> "KeyError", arg |-> key]

CalledProcessError == [type |-> "CalledProcessError", arg |-> <<>>]

\* a in b for two strings
IsSubstring(a, b) ==
  \E i \in 0..(Len(b) - Len(a)) : SubSeq(b, i + 1, i + Len(a)) = a

\* DIR.replace('\\', '/')
replaceBackslash(s) ==
  [i \in 1..Len(s) |-> IF s[i] = "\\" THEN "/" ELSE s[i]]

W_bin == <<"/","b","i","n">>

W_lib_gridlabd ==
  <<"/","l","i","b","/","g","r","i","d","l","a","b","d">>

W_share_gridlabd ==
  <<"/","s","h","a","r","e","/","g","r","i","d","l","a","b","d">>

W_minusI == <<"-","I">>

\* The environment runModel leaves, and the KeyError of env['PATH'] when
\* PATH is not set.  With a false DIR (None or '') env is None and nothing
\* of os.environ is read or written.
runModelEnv(env, DIR, LD_LIBRARY_PATH) ==
  IF ~DIR.given \/ DIR.v = <<>> THEN [env |-> env, exc |-> NoExc]
  ELSE
    LET dir == replaceBackslash(DIR.v)
        binStr == dir \o W_bin
    IN IF ~env.PATH.set THEN [env |-> env, exc |-> KeyError(W_PATH)]
       ELSE
         LET e1 == IF ~IsSubstring(binStr, env.PATH.v)
                     THEN [env EXCEPT
                             !.PATH = EnvSet(binStr \o pathsep \o env.PATH.v)]
                     ELSE env
             e2 == [e1 EXCEPT
                      !.GLPATH = EnvSet(dir \o W_lib_gridlabd \o pathsep
                                          \o dir \o W_share_gridlabd),
                      !.CXXFLAGS = EnvSet(W_minusI \o dir
                                            \o W_share_gridlabd)]
             e3 == IF ~LD_LIBRARY_PATH.given THEN e2
                   ELSE IF ~e2.LD_LIBRARY_PATH.set
                     THEN [e2 EXCEPT
                             !.LD_LIBRARY_PATH = EnvSet(LD_LIBRARY_PATH.v)]
                     ELSE [e2 EXCEPT
                             !.LD_LIBRARY_PATH =
                               EnvSet(e2.LD_LIBRARY_PATH.v \o pathsep
                                        \o LD_LIBRARY_PATH.v)]
         IN [env |-> e3, exc |-> NoExc]

D_g == <<"/","g">>

D_gBack == <<"\\","g">>

D_u == <<"/","u">>

L_l == <<"/","l">>

Dirs == {ArgNone, Arg(<<>>), Arg(D_g), Arg(D_gBack), Arg(D_u)}

LdPaths == {ArgNone, Arg(L_l)}

PathValues ==
  {EnvUnset, EnvSet(D_u), EnvSet(D_g \o W_bin),
   EnvSet(D_u \o pathsep \o D_g \o W_bin \o <<"2">>)}

LdValues == {EnvUnset, EnvSet(L_l), EnvSet(D_u)}

RunCall(op, n, DIR, LD_LIBRARY_PATH, same, first) ==
  [op |-> op, n |-> n, DIR |-> DIR, LD_LIBRARY_PATH |-> LD_LIBRARY_PATH,
   same |-> same, first |-> first]

InitRun ==
  /\ strModel = <<>>
  /\ pc = "idle"
  /\ d \in [PATH : PathValues, GLPATH : {EnvUnset}, CXXFLAGS : {EnvUnset},
            LD_LIBRARY_PATH : LdValues]
  /\ call = RunCall("none", 0, ArgNone, ArgNone, TRUE, d)
  /\ exc = NoExc
  /\ outDict = <<>>
  /\ pre = d

\* One call of runModel: the environment is set up, then GridLAB-D runs and
\* either ends well (ok) or subprocess.run raises CalledProcessError.
RunModel(DIR, LD_LIBRARY_PATH, ok) ==
  /\ call.n < MaxRuns
  /\ LET r == runModelEnv(d, DIR, LD_LIBRARY_PATH)
     IN /\ d' = r.env
        /\ exc' = IF r.exc # NoExc THEN r.exc
                  ELSE IF ok THEN NoExc ELSE CalledProcessError
        /\ pc' = IF r.exc = NoExc /\ ok THEN "returned" ELSE "raised"
        /\ call' = RunCall("runModel", call.n + 1, DIR, LD_LIBRARY_PATH,
                           call.same /\ (call.n = 0 \/
                             (DIR = call.DIR
                                /\ LD_LIBRARY_PATH = call.LD_LIBRARY_PATH)),
                           IF call.n = 0 THEN r.env ELSE call.first)
  /\ pre' = d
  /\ UNCHANGED <<strModel, outDict>>

NextRun ==
  \E DIR \in Dirs, LD_LIBRARY_PATH \in LdPaths, ok \in BOOLEAN :
    RunModel(DIR, LD_LIBRARY_PATH, ok)

SpecRun == InitRun /\ [][NextRun]_vars

\* C27: after the second and every later call of runModel with the same DIR
\* and LD_LIBRARY_PATH, PATH, GLPATH, CXXFLAGS and LD_LIBRARY_PATH have the
\* value they had after the first call.
C27_EnvironmentStable ==
  (call.n >= 2 /\ call.same) => d = call.first

====
